---------------------------- MODULE Spec2Model ----------------------------
(***************************************************************************)
(* A model of the ai.txt reference implementation (packages/core): the     *)
(* line-oriented text parser, the policy resolver and its glob matcher.    *)
(*                                                                         *)
(* JavaScript values are modelled as follows.  A string is a TLA+ string;  *)
(* a character is a string of length one.  An object (Record<string, X>,   *)
(* or an interface whose fields are optional) is a function whose domain   *)
(* is the set of keys that are defined: an absent key and a key holding    *)
(* undefined are the same thing.  A local that is `T | undefined` or       *)
(* `T | null` is a sequence of length at most one.                         *)
(***************************************************************************)
EXTENDS Integers, Sequences, FiniteSets, TLC

VARIABLES
    lines,      \* parse: the lines of the input consumed so far (lines[0..i-1])
    ps,         \* parse: the local variables of parse()
    result,     \* parse: the ParseResult returned, <<>> while still parsing
    doc,        \* resolver: the AiTxtDocument handed to resolve/canAccess
    call,       \* resolver: the last call made, with its arguments
    ret,        \* resolver: what that call returned
    heap,       \* the objects held by reference: heap[a] is the object at a
    client,     \* the AiTxtClient: its options and its cache, <<>> before construction
    now,        \* Date.now(), in milliseconds
    stored      \* history: per site, the last result a discover fetched and stored

vars == <<lines, ps, result, doc, call, ret, heap, client, now, stored>>

-----------------------------------------------------------------------------
(* Values *)

Undefined == <<>>
Some(v) == <<v>>
IsDefined(o) == o # <<>>
Get(o) == o[1]

EmptyObj == [k \in {} |-> ""]

\* no client has been constructed
ClientIdle ==
    /\ client = <<>>
    /\ now = 0
    /\ stored = EmptyObj
Has(o, k) == k \in DOMAIN o
Put(o, k, v) == [y \in DOMAIN o \cup {k} |-> IF y = k THEN v ELSE o[y]]
\* o[k] as an option: undefined when the key is absent
Field(o, k) == IF k \in DOMAIN o THEN Some(o[k]) ELSE Undefined
\* a ?? b on options
Coalesce(a, b) == IF IsDefined(a) THEN a ELSE b
\* o[k] = opt when opt is defined, o left alone otherwise
PutOpt(o, k, opt) == IF IsDefined(opt) THEN Put(o, k, Get(opt)) ELSE o

\* JavaScript truthiness of a string | undefined
Truthy(opt) == IsDefined(opt) /\ Get(opt) # ""

-----------------------------------------------------------------------------
(* Strings *)

CharAt(s, i) == SubSeq(s, i, i)

\* String.prototype.toLowerCase on one character (ASCII letters; every other
\* character of the model's alphabet is its own lower case)
LowerOf ==
    [A |-> "a", B |-> "b", C |-> "c", D |-> "d", E |-> "e", F |-> "f", G |-> "g",
     H |-> "h", I |-> "i", J |-> "j", K |-> "k", L |-> "l", M |-> "m", N |-> "n",
     O |-> "o", P |-> "p", Q |-> "q", R |-> "r", S |-> "s", T |-> "t", U |-> "u",
     V |-> "v", W |-> "w", X |-> "x", Y |-> "y", Z |-> "z"]

\* a character kept as written
ToLowerChar_asWritten(c) == c

ToLowerChar(c) == IF c \in DOMAIN LowerOf THEN LowerOf[c] ELSE c

RECURSIVE ToLowerCase(_)
ToLowerCase(s) ==
    IF s = "" THEN ""
    ELSE ToLowerChar(CharAt(s, 1)) \o ToLowerCase(SubSeq(s, 2, Len(s)))

\* the white space String.prototype.trim removes and \s matches
IsSpace(c) == c \in {" ", "\t", "\r", "\n", "\f"}

RECURSIVE TrimStart(_)
TrimStart(s) ==
    IF s # "" /\ IsSpace(CharAt(s, 1)) THEN TrimStart(SubSeq(s, 2, Len(s))) ELSE s

RECURSIVE TrimEnd(_)
TrimEnd(s) ==
    IF s # "" /\ IsSpace(CharAt(s, Len(s))) THEN TrimEnd(SubSeq(s, 1, Len(s) - 1)) ELSE s

Trim(s) == TrimEnd(TrimStart(s))

StartsWith(s, p) == Len(s) >= Len(p) /\ SubSeq(s, 1, Len(p)) = p

\* String.prototype.indexOf for a one-character needle: 0-based, -1 when absent
IndexOf(s, c) ==
    IF \E k \in 1..Len(s) : CharAt(s, k) = c
    THEN (CHOOSE k \in 1..Len(s) :
              CharAt(s, k) = c /\ \A j \in 1..(k - 1) : CharAt(s, j) # c) - 1
    ELSE -1

\* s.slice(from, to) and s.slice(from), 0-based, for 0 <= from
Slice(s, from, to) == SubSeq(s, from + 1, to)
SliceFrom(s, from) == SubSeq(s, from + 1, Len(s))

IsDigit(c) == c \in {"0", "1", "2", "3", "4", "5", "6", "7", "8", "9"}
DigitValue(c) == CHOOSE d \in 0..9 : CharAt("0123456789", d + 1) = c

\* parseInt(s, 10) for a non-empty string of digits
RECURSIVE ParseInt(_)
ParseInt(s) ==
    IF s = "" THEN 0
    ELSE 10 * ParseInt(SubSeq(s, 1, Len(s) - 1)) + DigitValue(CharAt(s, Len(s)))

-----------------------------------------------------------------------------
(* resolver: globMatch *)

\* the placeholder characters U+0001 and U+0002
U0001 == ""
U0002 == ""

\* s.replace(/<needle>/g, replacement) for a literal, non-empty needle: the
\* matches are taken from left to right and do not overlap
RECURSIVE ReplaceAll(_, _, _)
ReplaceAll(s, needle, replacement) ==
    IF s = "" THEN ""
    ELSE IF StartsWith(s, needle)
    THEN replacement \o ReplaceAll(SubSeq(s, Len(needle) + 1, Len(s)), needle, replacement)
    ELSE CharAt(s, 1) \o ReplaceAll(SubSeq(s, 2, Len(s)), needle, replacement)

\* the characters of the class [.+?^${}()|[\]\\]
RegexChars == {".", "+", "?", "^", "$", "{", "}", "(", ")", "|", "[", "]", "\\"}

\* s.replace(/([.+?^${}()|[\]\\])/g, "\\$1")
RECURSIVE EscapeRegex(_)
EscapeRegex(s) ==
    IF s = "" THEN ""
    ELSE (IF CharAt(s, 1) \in RegexChars THEN "\\" \o CharAt(s, 1) ELSE CharAt(s, 1))
         \o EscapeRegex(SubSeq(s, 2, Len(s)))

\* the expression with a single star translated like a double star
RegexStr_starCrossesSlash(pattern) ==
    LET sanitized == ReplaceAll(ReplaceAll(pattern, U0001, ""), U0002, "")
        r1 == EscapeRegex(sanitized)
        r2 == ReplaceAll(r1, "/**/", U0001)
        r3 == ReplaceAll(r2, "**", U0002)
        r4 == ReplaceAll(r3, "*", ".*")
        r5 == ReplaceAll(r4, U0001, "(?:/.+)?/")
    IN  ReplaceAll(r5, U0002, ".*")

\* lines 175-185: the source of the regular expression, without ^ and $
RegexStr(pattern) ==
    LET sanitized == ReplaceAll(ReplaceAll(pattern, U0001, ""), U0002, "")
        r1 == EscapeRegex(sanitized)
        r2 == ReplaceAll(r1, "/**/", U0001)
        r3 == ReplaceAll(r2, "**", U0002)
        r4 == ReplaceAll(r3, "*", "[^/]*")
        r5 == ReplaceAll(r4, U0001, "(?:/.+)?/")
    IN  ReplaceAll(r5, U0002, ".*")

\* what `.` does not match: the line terminators
IsLineTerminator(c) == c \in {"\n", "\r"}

NoSlash(s) == \A k \in 1..Len(s) : CharAt(s, k) # "/"
NoLineTerminator(s) == \A k \in 1..Len(s) : ~IsLineTerminator(CharAt(s, k))

\* new RegExp("^" + re + "$").test(path), for the expressions RegexStr builds:
\* every character of the pattern that is special in a regular expression is
\* escaped, so an unescaped [ ( or . begins one of the three inserted pieces
RECURSIVE RegexTest(_, _)
RegexTest(re, path) ==
    IF re = "" THEN path = ""
    ELSE IF StartsWith(re, "\\")
    THEN /\ path # ""
         /\ CharAt(path, 1) = CharAt(re, 2)
         /\ RegexTest(SubSeq(re, 3, Len(re)), SubSeq(path, 2, Len(path)))
    ELSE IF StartsWith(re, "[^/]*")
    THEN \E k \in 0..Len(path) :
            /\ NoSlash(SubSeq(path, 1, k))
            /\ RegexTest(SubSeq(re, 6, Len(re)), SubSeq(path, k + 1, Len(path)))
    ELSE IF StartsWith(re, ".*")
    THEN \E k \in 0..Len(path) :
            /\ NoLineTerminator(SubSeq(path, 1, k))
            /\ RegexTest(SubSeq(re, 3, Len(re)), SubSeq(path, k + 1, Len(path)))
    ELSE IF StartsWith(re, "(?:/.+)?/")
    THEN \/ /\ StartsWith(path, "/")
            /\ RegexTest(SubSeq(re, 10, Len(re)), SubSeq(path, 2, Len(path)))
         \/ \E k \in 3..Len(path) :
               /\ StartsWith(path, "/")
               /\ NoLineTerminator(SubSeq(path, 2, k - 1))
               /\ CharAt(path, k) = "/"
               /\ RegexTest(SubSeq(re, 10, Len(re)), SubSeq(path, k + 1, Len(path)))
    ELSE /\ path # ""
         /\ CharAt(path, 1) = CharAt(re, 1)
         /\ RegexTest(SubSeq(re, 2, Len(re)), SubSeq(path, 2, Len(path)))

\* line 172: the length ceilings
MaxPatternLength == 1000
MaxPathLength == 2000

\* new RegExp(...) of lines 187-188 throws on a malformed expression.  The
\* well-formed expressions are taken to be the ones RegexTest reads: escaped
\* characters, the three inserted pieces and characters that are not special;
\* on any other expression the constructor may throw
RECURSIVE RegexCompiles(_)
RegexCompiles(re) ==
    IF re = "" THEN TRUE
    ELSE IF StartsWith(re, "\\")
    THEN Len(re) >= 2 /\ RegexCompiles(SubSeq(re, 3, Len(re)))
    ELSE IF StartsWith(re, "[^/]*") THEN RegexCompiles(SubSeq(re, 6, Len(re)))
    ELSE IF StartsWith(re, ".*") THEN RegexCompiles(SubSeq(re, 3, Len(re)))
    ELSE IF StartsWith(re, "(?:/.+)?/") THEN RegexCompiles(SubSeq(re, 10, Len(re)))
    ELSE CharAt(re, 1) \notin RegexChars /\ RegexCompiles(SubSeq(re, 2, Len(re)))

\* globMatch answering true for an argument over its ceiling
globMatch_longMatches(path, pattern) ==
    IF Len(pattern) > MaxPatternLength \/ Len(path) > MaxPathLength
    THEN TRUE
    ELSE LET re == RegexStr(pattern)
         IN  IF RegexCompiles(re) THEN RegexTest(re, path) ELSE FALSE

\* lines 170-193; the catch of lines 190-192 answers false
globMatch(path, pattern) ==
    IF Len(pattern) > MaxPatternLength \/ Len(path) > MaxPathLength
    THEN FALSE
    ELSE LET re == RegexStr(pattern)
         IN  IF RegexCompiles(re) THEN RegexTest(re, path) ELSE FALSE

-----------------------------------------------------------------------------
(* resolver: matchPath, resolve, canAccess *)

\* the index of the first pattern, from the k-th on, that matches the path:
\* the `for ... of` loops of matchPath; 0 when none matches
RECURSIVE FirstMatchFrom(_, _, _)
FirstMatchFrom(path, patterns, k) ==
    IF k > Len(patterns) THEN 0
    ELSE IF globMatch(path, patterns[k]) THEN k
    ELSE FirstMatchFrom(path, patterns, k + 1)

FirstMatch(path, patterns) == FirstMatchFrom(path, patterns, 1)

\* matchPath with the allow list consulted before the deny list
matchPath_allowFirst(path, allowPatterns, denyPatterns) ==
    LET d == FirstMatch(path, denyPatterns)
        a == FirstMatch(path, allowPatterns)
    IN  IF a > 0
        THEN [allowed |-> TRUE,
              reason |-> "path \"" \o path \o "\" matches allow pattern \""
                         \o allowPatterns[a] \o "\""]
        ELSE IF d > 0
        THEN [allowed |-> FALSE,
              reason |-> "path \"" \o path \o "\" matches deny pattern \""
                         \o denyPatterns[d] \o "\""]
        ELSE [allowed |-> FALSE,
              reason |-> "path \"" \o path \o "\" does not match any training path pattern"]

matchPath(path, allowPatterns, denyPatterns) ==
    LET d == FirstMatch(path, denyPatterns)
        a == FirstMatch(path, allowPatterns)
    IN  IF d > 0
        THEN [allowed |-> FALSE,
              reason |-> "path \"" \o path \o "\" matches deny pattern \""
                         \o denyPatterns[d] \o "\""]
        ELSE IF a > 0
        THEN [allowed |-> TRUE,
              reason |-> "path \"" \o path \o "\" matches allow pattern \""
                         \o allowPatterns[a] \o "\""]
        ELSE [allowed |-> FALSE,
              reason |-> "path \"" \o path \o "\" does not match any training path pattern"]

\* the lookup without toLowerCase(): doc.agents[agentName] ?? {}
agentBlockOf_exact(d, agentName) ==
    Get(Coalesce(Field(d.agents, agentName), Some(EmptyObj)))

\* line 56: doc.agents[agentName.toLowerCase()] ?? {}
agentBlockOf(d, agentName) ==
    Get(Coalesce(Field(d.agents, ToLowerCase(agentName)), Some(EmptyObj)))

\* line 57: doc.agents["*"] ?? {}
wildcardBlockOf(d) == Get(Coalesce(Field(d.agents, "*"), Some(EmptyObj)))

\* the chain without its middle tier: agentBlock.f ?? doc.policies.f
firstDefined_noWildcard(agentBlock, wildcardBlock, policies, f) ==
    Get(Coalesce(Field(agentBlock, f), Field(policies, f)))

\* lines 60-63: agentBlock.f ?? wildcardBlock.f ?? doc.policies.f
firstDefined(agentBlock, wildcardBlock, policies, f) ==
    Get(Coalesce(Field(agentBlock, f), Coalesce(Field(wildcardBlock, f), Field(policies, f))))

resolve(d, agentName) ==
    LET agentBlock == agentBlockOf(d, agentName)
        wildcardBlock == wildcardBlockOf(d)
        resolved ==
            [training |-> firstDefined(agentBlock, wildcardBlock, d.policies, "training"),
             scraping |-> firstDefined(agentBlock, wildcardBlock, d.policies, "scraping"),
             indexing |-> firstDefined(agentBlock, wildcardBlock, d.policies, "indexing"),
             caching  |-> firstDefined(agentBlock, wildcardBlock, d.policies, "caching")]
        rateLimit == Coalesce(Field(agentBlock, "rateLimit"), Field(wildcardBlock, "rateLimit"))
    IN  PutOpt(PutOpt(resolved, "rateLimit", rateLimit), "content", Field(d, "content"))

\* canAccess without the `field !== "training"` branch
canAccess_anyField(d, agentName, field, path) ==
    LET value == resolve(d, agentName)[field]
    IN  IF value = "allow"
        THEN [allowed |-> TRUE, reason |-> field \o " is allowed"]
        ELSE IF value = "deny"
        THEN [allowed |-> FALSE, reason |-> field \o " is denied"]
        ELSE IF value = "conditional"
        THEN IF ~Truthy(path)
             THEN [allowed |-> FALSE,
                   reason |-> "training is conditional but no path provided to check"]
             ELSE IF ~Has(d, "trainingPaths")
             THEN [allowed |-> FALSE,
                   reason |-> "training is conditional but no trainingPaths defined"]
             ELSE matchPath(Get(path), d.trainingPaths.allow, d.trainingPaths.deny)
        ELSE [allowed |-> FALSE, reason |-> "unknown policy value: " \o value]

\* canAccess handing the two pattern lists to matchPath in the other order
canAccess_swapped(d, agentName, field, path) ==
    LET value == resolve(d, agentName)[field]
    IN  IF value = "allow"
        THEN [allowed |-> TRUE, reason |-> field \o " is allowed"]
        ELSE IF value = "deny"
        THEN [allowed |-> FALSE, reason |-> field \o " is denied"]
        ELSE IF value = "conditional"
        THEN IF field # "training"
             THEN [allowed |-> FALSE,
                   reason |-> field \o " is conditional but path-based rules only apply to training"]
             ELSE IF ~Truthy(path)
             THEN [allowed |-> FALSE,
                   reason |-> "training is conditional but no path provided to check"]
             ELSE IF ~Has(d, "trainingPaths")
             THEN [allowed |-> FALSE,
                   reason |-> "training is conditional but no trainingPaths defined"]
             ELSE matchPath(Get(path), d.trainingPaths.deny, d.trainingPaths.allow)
        ELSE [allowed |-> FALSE, reason |-> "unknown policy value: " \o value]

\* `path` is the optional argument: Undefined when the caller gives none
canAccess(d, agentName, field, path) ==
    LET resolved == resolve(d, agentName)
        value == resolved[field]
    IN  IF value = "allow"
        THEN [allowed |-> TRUE, reason |-> field \o " is allowed"]
        ELSE IF value = "deny"
        THEN [allowed |-> FALSE, reason |-> field \o " is denied"]
        ELSE IF value = "conditional"
        THEN IF field # "training"
             THEN [allowed |-> FALSE,
                   reason |-> field \o " is conditional but path-based rules only apply to training"]
             ELSE IF ~Truthy(path)
             THEN [allowed |-> FALSE,
                   reason |-> "training is conditional but no path provided to check"]
             ELSE IF ~Has(d, "trainingPaths")
             THEN [allowed |-> FALSE,
                   reason |-> "training is conditional but no trainingPaths defined"]
             ELSE matchPath(Get(path), d.trainingPaths.allow, d.trainingPaths.deny)
        ELSE [allowed |-> FALSE, reason |-> "unknown policy value: " \o value]

-----------------------------------------------------------------------------
(* utils: parseRateLimit *)

RateLimitWindows == {"second", "minute", "hour", "day"}

AllDigits(s) == \A k \in 1..Len(s) : IsDigit(CharAt(s, k))

\* value.match(/^(\d+)\/(second|minute|hour|day)$/), then requests > 0.
\* Neither the digits nor a window name holds a "/", so the "/" of a match is
\* the first one of the value.
parseRateLimit(value) ==
    LET slash == IndexOf(value, "/")
        digits == Slice(value, 0, slash)
        window == SliceFrom(value, slash + 1)
    IN  IF slash < 1 \/ ~AllDigits(digits) \/ window \notin RateLimitWindows
        THEN Undefined
        ELSE IF ParseInt(digits) <= 0
        THEN Undefined
        ELSE Some([requests |-> ParseInt(digits), window |-> window])

-----------------------------------------------------------------------------
(* parser: parse *)

VALID_POLICY_VALUES == {"allow", "deny", "conditional"}
VALID_REQUIREMENT_LEVELS == {"required", "recommended", "optional", "none"}

\* the locals of parse() before the loop
ParseStart ==
    [ specVersion        |-> "1.0",
      generatedAt        |-> Undefined,
      site               |-> EmptyObj,
      policies           |-> EmptyObj,
      trainingAllowPaths |-> <<>>,
      trainingDenyPaths  |-> <<>>,
      licensing          |-> EmptyObj,
      agents             |-> EmptyObj,
      content            |-> EmptyObj,
      compliance         |-> EmptyObj,
      metadata           |-> EmptyObj,
      state              |-> "TOP_LEVEL",
      currentAgentName   |-> Undefined,
      currentAgentPolicy |-> Undefined,
      errors             |-> <<>>,
      warnings           |-> <<>> ]

flushAgent(p) ==
    [p EXCEPT
        !.agents = IF IsDefined(p.currentAgentName) /\ IsDefined(p.currentAgentPolicy)
                   THEN Put(@, Get(p.currentAgentName), Get(p.currentAgentPolicy))
                   ELSE @,
        !.currentAgentName = Undefined,
        !.currentAgentPolicy = Undefined]

\* warnings.push(w).  The dash (U+2014) of three of the messages is written --
Warn(p, w) == [p EXCEPT !.warnings = Append(@, w)]

\* trimmed.match(/^#\s*<name>:\s*(.+)/i): the capture, trimmed, or undefined.
\* `lname` is the name in lower case.  The line holds no line terminator and
\* ends with no white space (it is trimmed), so (.+) is what follows the
\* white space after the colon, when anything does.
HeaderComment(trimmed, lname) ==
    LET afterHash == TrimStart(SliceFrom(trimmed, 1))
        afterName == TrimStart(SliceFrom(afterHash, Len(lname) + 1))
    IN  IF StartsWith(trimmed, "#")
           /\ StartsWith(ToLowerCase(afterHash), lname \o ":")
           /\ afterName # ""
        THEN Some(Trim(afterName))
        ELSE Undefined

CommentLine_closing(p, lineNum, trimmed) == [flushAgent(p) EXCEPT !.state = "TOP_LEVEL"]

\* lines 257-269: an empty line or a comment
CommentLine(p, lineNum, trimmed) ==
    LET specMatch == HeaderComment(trimmed, "spec-version")
        genMatch == Coalesce(HeaderComment(trimmed, "generated"),
                             HeaderComment(trimmed, "generated-at"))
        p1 == IF IsDefined(specMatch)
              THEN Warn([p EXCEPT !.specVersion = Get(specMatch)],
                        [line |-> lineNum,
                         message |-> "Spec-Version found in comment -- use a top-level field instead"])
              ELSE p
    IN  IF IsDefined(genMatch)
        THEN Warn([p1 EXCEPT !.generatedAt = genMatch],
                  [line |-> lineNum, message |-> "Generated-At found in comment -- use a top-level field instead"])
        ELSE p1

\* one `case` of the agent-block switch for a policy field
AgentPolicyField(p, lineNum, name, label, value) ==
    IF value \in VALID_POLICY_VALUES
    THEN [p EXCEPT !.currentAgentPolicy = Some(Put(Get(@), name, value))]
    ELSE Warn(p, [line |-> lineNum, field |-> label,
                  message |-> "Invalid policy value: " \o value])

\* lines 280-332: an indented line inside an Agent block
AgentLine(p, lineNum, trimmed) ==
    LET colonIdx == IndexOf(trimmed, ":")
        key == Trim(Slice(trimmed, 0, colonIdx))
        keyLower == ToLowerCase(key)
        value == Trim(SliceFrom(trimmed, colonIdx + 1))
        rl == parseRateLimit(value)
    IN  IF colonIdx = -1
        THEN Warn(p, [line |-> lineNum,
                      message |-> "Unparseable indented line: \"" \o trimmed \o "\""])
        ELSE CASE keyLower = "training" ->
                      AgentPolicyField(p, lineNum, "training", "Training", value)
               [] keyLower = "scraping" ->
                      AgentPolicyField(p, lineNum, "scraping", "Scraping", value)
               [] keyLower = "indexing" ->
                      AgentPolicyField(p, lineNum, "indexing", "Indexing", value)
               [] keyLower = "caching" ->
                      AgentPolicyField(p, lineNum, "caching", "Caching", value)
               [] keyLower = "rate-limit" ->
                      IF IsDefined(rl)
                      THEN [p EXCEPT !.currentAgentPolicy =
                                         Some(Put(Get(@), "rateLimit", Get(rl)))]
                      ELSE Warn(p, [line |-> lineNum, field |-> "Rate-Limit",
                                    message |-> "Invalid rate limit: " \o value])
               [] OTHER ->
                      Warn(p, [line |-> lineNum,
                               message |-> "Unknown agent field: " \o key])

\* the case warning about an invalid value and storing it all the same
TopPolicyField_storing(p, lineNum, name, label, value) ==
    IF value \in VALID_POLICY_VALUES
    THEN [p EXCEPT !.policies = Put(@, name, value)]
    ELSE Warn([p EXCEPT !.policies = Put(@, name, value)],
              [line |-> lineNum, field |-> label,
               message |-> "Invalid policy value: " \o value])

\* one `case` of the top-level switch for a policy field
TopPolicyField(p, lineNum, name, label, value) ==
    IF value \in VALID_POLICY_VALUES
    THEN [p EXCEPT !.policies = Put(@, name, value)]
    ELSE Warn(p, [line |-> lineNum, field |-> label,
                  message |-> "Invalid policy value: " \o value])

\* one `case` of the top-level switch for a requirement level
TopLevelField(p, lineNum, obj, name, label, value) ==
    IF value \in VALID_REQUIREMENT_LEVELS
    THEN [p EXCEPT ![obj] = Put(@, name, value)]
    ELSE Warn(p, [line |-> lineNum, field |-> label,
                  message |-> "Invalid requirement level: " \o value])

\* a re-opened block starting from the fields stored for the name
AgentOpen_merging(p, lineNum, value) ==
    LET normalizedAgent == ToLowerCase(value)
        p1 == IF Has(p.agents, normalizedAgent)
              THEN Warn(p, [line |-> lineNum, field |-> "Agent",
                            message |-> "Duplicate Agent block \"" \o value
                                        \o "\" -- previous block will be overwritten"])
              ELSE p
    IN  IF value = ""
        THEN Warn(p, [line |-> lineNum, field |-> "Agent",
                      message |-> "Agent name must not be empty"])
        ELSE [p1 EXCEPT !.currentAgentName = Some(normalizedAgent),
                        !.currentAgentPolicy =
                            IF Has(p.agents, normalizedAgent)
                            THEN Some(p.agents[normalizedAgent])
                            ELSE Some(EmptyObj),
                        !.state = "IN_AGENT"]

\* lines 429-441: case "agent"
AgentOpen(p, lineNum, value) ==
    LET normalizedAgent == ToLowerCase(value)
        p1 == IF Has(p.agents, normalizedAgent)
              THEN Warn(p, [line |-> lineNum, field |-> "Agent",
                            message |-> "Duplicate Agent block \"" \o value
                                        \o "\" -- previous block will be overwritten"])
              ELSE p
    IN  IF value = ""
        THEN Warn(p, [line |-> lineNum, field |-> "Agent",
                      message |-> "Agent name must not be empty"])
        ELSE [p1 EXCEPT !.currentAgentName = Some(normalizedAgent),
                        !.currentAgentPolicy = Some(EmptyObj),
                        !.state = "IN_AGENT"]

\* lines 334-446: a line that is not indented (or is met in no block)
TopLine(p0, lineNum, trimmed) ==
    LET p == IF p0.state = "IN_AGENT"
             THEN [flushAgent(p0) EXCEPT !.state = "TOP_LEVEL"]
             ELSE p0
        colonIdx == IndexOf(trimmed, ":")
        key == Trim(Slice(trimmed, 0, colonIdx))
        keyLower == ToLowerCase(key)
        value == Trim(SliceFrom(trimmed, colonIdx + 1))
    IN  IF colonIdx = -1
        THEN Warn(p, [line |-> lineNum, message |-> "Unparseable line: \"" \o trimmed \o "\""])
        ELSE CASE keyLower = "spec-version" -> [p EXCEPT !.specVersion = value]
               [] keyLower = "generated-at" -> [p EXCEPT !.generatedAt = Some(value)]
               [] keyLower = "site-name" -> [p EXCEPT !.site = Put(@, "name", value)]
               [] keyLower = "site-url" -> [p EXCEPT !.site = Put(@, "url", value)]
               [] keyLower \in {"description", "site-description"} ->
                      [p EXCEPT !.site = Put(@, "description", value)]
               [] keyLower \in {"contact", "site-contact"} ->
                      [p EXCEPT !.site = Put(@, "contact", value)]
               [] keyLower = "policy-url" -> [p EXCEPT !.site = Put(@, "policyUrl", value)]
               [] keyLower = "training" ->
                      TopPolicyField(p, lineNum, "training", "Training", value)
               [] keyLower = "scraping" ->
                      TopPolicyField(p, lineNum, "scraping", "Scraping", value)
               [] keyLower = "indexing" ->
                      TopPolicyField(p, lineNum, "indexing", "Indexing", value)
               [] keyLower = "caching" ->
                      TopPolicyField(p, lineNum, "caching", "Caching", value)
               [] keyLower = "training-allow" ->
                      [p EXCEPT !.trainingAllowPaths = Append(@, value)]
               [] keyLower = "training-deny" ->
                      [p EXCEPT !.trainingDenyPaths = Append(@, value)]
               [] keyLower = "training-license" ->
                      [p EXCEPT !.licensing = Put(@, "license", value)]
               [] keyLower = "training-fee" ->
                      [p EXCEPT !.licensing = Put(@, "feeUrl", value)]
               [] keyLower = "attribution" ->
                      TopLevelField(p, lineNum, "content", "attribution",
                                    "Attribution", value)
               [] keyLower = "ai-disclosure" ->
                      TopLevelField(p, lineNum, "content", "aiDisclosure",
                                    "AI-Disclosure", value)
               [] keyLower = "audit" ->
                      TopLevelField(p, lineNum, "compliance", "audit", "Audit", value)
               [] keyLower = "audit-format" ->
                      [p EXCEPT !.compliance = Put(@, "auditFormat", value)]
               [] keyLower = "ai-json" -> [p EXCEPT !.metadata = Put(@, "AI-JSON", value)]
               [] keyLower = "agents-txt" ->
                      [p EXCEPT !.metadata = Put(@, "Agents-TXT", value)]
               [] keyLower = "agent" -> AgentOpen(p, lineNum, value)
               [] OTHER -> [p EXCEPT !.metadata = Put(@, key, value)]

isIndented(raw) == StartsWith(raw, "  ") \/ StartsWith(raw, "\t")

\* the loop body without the test for an indented line outside of a block
ParseLoopBody_noOrphanTest(p, lineNum, raw) ==
    LET trimmed == Trim(raw)
    IN  IF trimmed = "" \/ StartsWith(trimmed, "#")
        THEN CommentLine(p, lineNum, trimmed)
        ELSE IF isIndented(raw) /\ p.state = "IN_AGENT" /\ IsDefined(p.currentAgentPolicy)
        THEN AgentLine(p, lineNum, trimmed)
        ELSE TopLine(p, lineNum, trimmed)

\* lines 251-446: one iteration of the loop over the lines, on lines[i] = raw
ParseLoopBody(p, lineNum, raw) ==
    LET trimmed == Trim(raw)
    IN  IF trimmed = "" \/ StartsWith(trimmed, "#")
        THEN CommentLine(p, lineNum, trimmed)
        ELSE IF isIndented(raw) /\ p.state = "TOP_LEVEL"
        THEN Warn(p, [line |-> lineNum,
                      message |-> "Indented line outside of a block: \"" \o trimmed \o "\""])
        ELSE IF isIndented(raw) /\ p.state = "IN_AGENT" /\ IsDefined(p.currentAgentPolicy)
        THEN AgentLine(p, lineNum, trimmed)
        ELSE TopLine(p, lineNum, trimmed)

\* the agents collected, without the default
agentsOrDefault_asCollected(agents) == agents

\* line 481: Object.keys(agents).length > 0 ? agents : { "*": {} }
agentsOrDefault(agents) ==
    IF Cardinality(DOMAIN agents) > 0 THEN agents ELSE Put(EmptyObj, "*", EmptyObj)

\* lines 459-495: the AiTxtDocument built from the collected data
BuildDocument(p) ==
    LET site == PutOpt(PutOpt(PutOpt([name |-> p.site.name, url |-> p.site.url],
                    "description", Field(p.site, "description")),
                    "contact", Field(p.site, "contact")),
                    "policyUrl", Field(p.site, "policyUrl"))
        policies ==
            [training |-> Get(Coalesce(Field(p.policies, "training"), Some("deny"))),
             scraping |-> Get(Coalesce(Field(p.policies, "scraping"), Some("allow"))),
             indexing |-> Get(Coalesce(Field(p.policies, "indexing"), Some("allow"))),
             caching  |-> Get(Coalesce(Field(p.policies, "caching"), Some("allow")))]
        trainingPaths ==
            IF Len(p.trainingAllowPaths) > 0 \/ Len(p.trainingDenyPaths) > 0
            THEN Some([allow |-> p.trainingAllowPaths, deny |-> p.trainingDenyPaths])
            ELSE Undefined
        licensing ==
            IF Truthy(Field(p.licensing, "license")) \/ Truthy(Field(p.licensing, "feeUrl"))
            THEN Some(PutOpt(PutOpt(EmptyObj, "license", Field(p.licensing, "license")),
                             "feeUrl", Field(p.licensing, "feeUrl")))
            ELSE Undefined
        agents == agentsOrDefault(p.agents)
        content ==
            IF Truthy(Field(p.content, "attribution"))
               \/ Truthy(Field(p.content, "aiDisclosure"))
            THEN Some(PutOpt(PutOpt(EmptyObj,
                        "attribution", Field(p.content, "attribution")),
                        "aiDisclosure", Field(p.content, "aiDisclosure")))
            ELSE Undefined
        compliance ==
            IF Truthy(Field(p.compliance, "audit"))
               \/ Truthy(Field(p.compliance, "auditFormat"))
            THEN Some(PutOpt(PutOpt(EmptyObj,
                        "audit", Field(p.compliance, "audit")),
                        "auditFormat", Field(p.compliance, "auditFormat")))
            ELSE Undefined
        metadata == IF Cardinality(DOMAIN p.metadata) > 0
                    THEN Some(p.metadata)
                    ELSE Undefined
    IN  PutOpt(PutOpt(PutOpt(PutOpt(PutOpt(PutOpt(
            [specVersion |-> p.specVersion, site |-> site,
             policies |-> policies, agents |-> agents],
            "generatedAt", p.generatedAt),
            "trainingPaths", trainingPaths),
            "licensing", licensing),
            "content", content),
            "compliance", compliance),
            "metadata", metadata)

\* the required-field test as `=== undefined` instead of `!site.name`
ParseEnd_definedOnly(p0) ==
    LET p == IF p0.state = "IN_AGENT" THEN flushAgent(p0) ELSE p0
        e1 == IF ~IsDefined(Field(p.site, "name"))
              THEN <<[field |-> "Site-Name", message |-> "Site-Name is required"]>>
              ELSE <<>>
        e2 == IF ~IsDefined(Field(p.site, "url"))
              THEN <<[field |-> "Site-URL", message |-> "Site-URL is required"]>>
              ELSE <<>>
    IN  [p EXCEPT !.errors = @ \o e1 \o e2]

\* lines 448-453: the locals once the loop has ended
ParseEnd(p0) ==
    LET p == IF p0.state = "IN_AGENT" THEN flushAgent(p0) ELSE p0
        e1 == IF ~Truthy(Field(p.site, "name"))
              THEN <<[field |-> "Site-Name", message |-> "Site-Name is required"]>>
              ELSE <<>>
        e2 == IF ~Truthy(Field(p.site, "url"))
              THEN <<[field |-> "Site-URL", message |-> "Site-URL is required"]>>
              ELSE <<>>
    IN  [p EXCEPT !.errors = @ \o e1 \o e2]

\* lines 455-497: the ParseResult returned
ParseResult(p) ==
    IF Len(p.errors) > 0
    THEN [success |-> FALSE, errors |-> p.errors, warnings |-> p.warnings]
    ELSE [success |-> TRUE, document |-> BuildDocument(p),
          errors |-> p.errors, warnings |-> p.warnings]

-----------------------------------------------------------------------------
(* The parser as a state machine: one step per line of the input *)

\* how many lines an input holds after its two site lines
MaxLines == 3

\* the two required fields, with which every input of Spec begins
SiteLines == <<"Site-Name: My Blog", "Site-URL: https://myblog.com">>

\* the lines the inputs of Spec are made of
LinePool ==
    { "Agent: ClaudeBot",
      "agent: CLAUDEBOT",
      "Agent: *",
      "Agent:",
      "  Training: allow",
      "\tscraping: deny",
      "  Training: maybe",
      "  Rate-Limit: 60/minute",
      "  Rate-Limit: 0/hour",
      "Training: conditional",
      "Caching: Allow",
      "Attribution: always",
      "oops",
      " Indexing: deny",
      "",
      "# note" }

\* parse() is entered: nothing read, nothing returned
ParserIdle ==
    /\ lines = <<>>
    /\ ps = ParseStart
    /\ result = Undefined

ResolverIdle ==
    /\ heap = <<>>
    /\ ClientIdle
    /\ doc = Undefined
    /\ call = Undefined
    /\ ret = Undefined

Init == ParserIdle /\ ResolverIdle

\* the loop body runs on the next line of the input
ParseLine ==
    /\ result = Undefined
    /\ \E raw \in IF Len(lines) < Len(SiteLines)
                  THEN {SiteLines[Len(lines) + 1]}
                  ELSE IF Len(lines) < Len(SiteLines) + MaxLines
                  THEN LinePool
                  ELSE {} :
          /\ lines' = Append(lines, raw)
          /\ ps' = ParseLoopBody(ps, Len(lines) + 1, raw)
    /\ UNCHANGED <<client, now, stored, heap, result, doc, call, ret>>

\* the input ends: the open block is flushed and the result returned
ParseReturn ==
    /\ result = Undefined
    /\ Len(lines) > 0    \* input.split() yields at least one line
    /\ ps' = ParseEnd(ps)
    /\ result' = Some(ParseResult(ParseEnd(ps)))
    /\ UNCHANGED <<client, now, stored, heap, lines, doc, call, ret>>

Next == ParseLine \/ ParseReturn

Spec == Init /\ [][Next]_vars

\* parse as a function of the lines of its input
RECURSIVE ParseLoop(_, _, _)
ParseLoop(p, ls, i) ==
    IF i > Len(ls) THEN p
    ELSE LET q == ParseLoopBody(p, i, ls[i])
         IN  \* q is computed before the loop goes on
             IF q = q THEN ParseLoop(q, ls, i + 1) ELSE p

parse(ls) == ParseResult(ParseEnd(ParseLoop(ParseStart, ls, 1)))

-----------------------------------------------------------------------------
(* The parser on inputs made of site lines: the required fields *)

\* how many lines such an input holds
MaxSiteLines == 4

SiteLinePool ==
    { "Site-Name: My Blog",
      "Site-URL: https://myblog.com",
      "Site-Name:",
      "site-url:   ",
      "  Site-Name: Indented",
      "# Site-URL: https://commented.example",
      "Agent: *",
      "Training: maybe" }

ParseSiteLine ==
    /\ result = Undefined
    /\ Len(lines) < MaxSiteLines
    /\ \E raw \in SiteLinePool :
          /\ lines' = Append(lines, raw)
          /\ ps' = ParseLoopBody(ps, Len(lines) + 1, raw)
    /\ UNCHANGED <<client, now, stored, heap, result, doc, call, ret>>

NextSite == ParseSiteLine \/ ParseReturn

SpecSite == Init /\ [][NextSite]_vars

-----------------------------------------------------------------------------
(* The parser on inputs made of Agent blocks, after the two site lines *)

\* how many lines such an input holds after its two site lines
MaxBlockLines == 4

BlockLinePool ==
    { "Agent: ClaudeBot",
      "agent: CLAUDEBOT",
      "Agent: *",
      "  Training: allow",
      "\tscraping: deny",
      "  Rate-Limit: 60/minute",
      "Training: conditional",
      "oops",
      "" }

ParseBlockLine ==
    /\ result = Undefined
    /\ \E raw \in IF Len(lines) < Len(SiteLines)
                  THEN {SiteLines[Len(lines) + 1]}
                  ELSE IF Len(lines) < Len(SiteLines) + MaxBlockLines
                  THEN BlockLinePool
                  ELSE {} :
          /\ lines' = Append(lines, raw)
          /\ ps' = ParseLoopBody(ps, Len(lines) + 1, raw)
    /\ UNCHANGED <<client, now, stored, heap, result, doc, call, ret>>

NextBlocks == ParseBlockLine \/ ParseReturn

SpecBlocks == Init /\ [][NextBlocks]_vars

-----------------------------------------------------------------------------
(* The resolver: calls of its exported functions on bounded inputs *)

Fields == {"training", "scraping", "indexing", "caching"}

\* the site-wide policies of the documents; "maybe" is a value outside
\* PolicyValue, which only a hand-built document can hold
PolicyPool ==
    { [training |-> "deny", scraping |-> "allow", indexing |-> "allow", caching |-> "allow"],
      [training |-> "conditional", scraping |-> "allow", indexing |-> "deny", caching |-> "allow"],
      [training |-> "allow", scraping |-> "conditional", indexing |-> "allow", caching |-> "deny"],
      [training |-> "maybe", scraping |-> "deny", indexing |-> "conditional", caching |-> "conditional"] }

\* the agent blocks of the documents
AgentPolicyPool ==
    { EmptyObj,
      [training |-> "conditional"],
      [training |-> "allow", rateLimit |-> [requests |-> 200, window |-> "minute"]],
      [training |-> "deny", scraping |-> "conditional", caching |-> "deny"] }

\* the keys of doc.agents: the wildcard, a lower-case name, and a name in the
\* casing of the Agent line, as a document not built by a parser may keep it
AgentKeys == {"*", "claudebot", "ClaudeBot"}

AgentMaps ==
    UNION { [ks -> AgentPolicyPool] : ks \in SUBSET AgentKeys }

TrainingPathsPool ==
    { Undefined,
      Some([allow |-> <<"/blog/**", "*">>, deny |-> <<"/blog/premium/*">>]) }

ContentPool ==
    { Undefined, Some([attribution |-> "required", aiDisclosure |-> "recommended"]) }

Docs ==
    { PutOpt(PutOpt(
          [specVersion |-> "1.0",
           site |-> [name |-> "Test", url |-> "https://test.com"],
           policies |-> pol, agents |-> ags],
          "trainingPaths", tp), "content", co) :
      pol \in PolicyPool, ags \in AgentMaps, tp \in TrainingPathsPool, co \in ContentPool }

\* the names agents call the resolver with
AgentNames == {"ClaudeBot", "claudebot", "GPTBot"}

\* the optional path argument of canAccess
PathArgs == {Undefined, Some(""), Some("/blog/post"), Some("/blog/premium/x"), Some("/private/data")}

\* matchPath: the paths, the patterns, and how long a pattern list may be
MaxPatterns == 2
PathPool == {"", "/", "/blog", "/blog/post", "/blog/2024/post", "/blog/premium/post"}
PatternPool == {"/blog/*", "/blog/**", "/blog/premium/**"}

RECURSIVE SeqsUpTo(_, _)
SeqsUpTo(S, n) ==
    IF n = 0 THEN {<<>>}
    ELSE SeqsUpTo(S, n - 1) \cup { Append(q, x) : q \in SeqsUpTo(S, n - 1), x \in S }

PatternLists == SeqsUpTo(PatternPool, MaxPatterns)

\* a document to resolve against, or none for the calls that take none
InitResolve ==
    /\ ParserIdle
    /\ heap = <<>>
    /\ ClientIdle
    /\ doc \in Docs \cup {Undefined}
    /\ call = Undefined
    /\ ret = Undefined

Resolve ==
    /\ doc # Undefined
    /\ call = Undefined
    /\ \E agentName \in AgentNames :
          /\ call' = [op |-> "resolve", agentName |-> agentName]
          /\ ret' = resolve(doc, agentName)
    /\ UNCHANGED <<client, now, stored, heap, lines, ps, result, doc>>

CanAccess ==
    /\ doc # Undefined
    /\ call = Undefined
    /\ \E agentName \in AgentNames, field \in Fields, path \in PathArgs :
          /\ call' = [op |-> "canAccess", agentName |-> agentName,
                      field |-> field, path |-> path]
          /\ ret' = canAccess(doc, agentName, field, path)
    /\ UNCHANGED <<client, now, stored, heap, lines, ps, result, doc>>

MatchPath ==
    /\ doc = Undefined
    /\ call = Undefined
    /\ \E path \in PathPool, allowPatterns \in PatternLists, denyPatterns \in PatternLists :
          /\ call' = [op |-> "matchPath", path |-> path,
                      allowPatterns |-> allowPatterns, denyPatterns |-> denyPatterns]
          /\ ret' = matchPath(path, allowPatterns, denyPatterns)
    /\ UNCHANGED <<client, now, stored, heap, lines, ps, result, doc>>

NextResolve == Resolve \/ CanAccess \/ MatchPath

SpecResolve == InitResolve /\ [][NextResolve]_vars

-----------------------------------------------------------------------------
(* Properties of the resolver, checked under SpecResolve *)

Called(op) == call # Undefined /\ call.op = op

\* the resolved value of the field the canAccess call asks about
ResolvedValue == resolve(doc, call.agentName)[call.field]

\* C1: canAccess fails closed.  It answers allowed = true only when the
\* resolved value of the field is "allow", or when the field is training, the
\* value is "conditional", a path is supplied, the document declares
\* trainingPaths and path matching allows the path.  In every other case
\* (deny, conditional on another field, conditional without a path or without
\* trainingPaths, a value outside the three) it answers allowed = false, and
\* it always answers with a result {allowed, reason}.
C1_FailsClosed ==
    Called("canAccess") =>
        LET value == ResolvedValue
        IN  /\ DOMAIN ret = {"allowed", "reason"}
            /\ ret.allowed \in BOOLEAN
            /\ ret.allowed =>
                  \/ value = "allow"
                  \/ /\ call.field = "training"
                     /\ value = "conditional"
                     /\ IsDefined(call.path)
                     /\ Has(doc, "trainingPaths")
                     /\ \E k \in 1..Len(doc.trainingPaths.allow) :
                           globMatch(Get(call.path), doc.trainingPaths.allow[k])
                     /\ \A k \in 1..Len(doc.trainingPaths.deny) :
                           ~globMatch(Get(call.path), doc.trainingPaths.deny[k])
            /\ value = "deny" => ~ret.allowed
            /\ value \notin VALID_POLICY_VALUES => ~ret.allowed
            /\ (value = "conditional" /\ call.field # "training") => ~ret.allowed
            /\ (value = "conditional" /\ call.path = Undefined) => ~ret.allowed
            /\ (value = "conditional" /\ ~Has(doc, "trainingPaths")) => ~ret.allowed

\* conditional training granted for a supplied path
C1_Witness ==
    /\ Called("canAccess")
    /\ call.field = "training"
    /\ ResolvedValue = "conditional"
    /\ IsDefined(call.path)
    /\ ret.allowed

\* the patterns of a list that match the path, by position
Hits(path, patterns) == { k \in 1..Len(patterns) : globMatch(path, patterns[k]) }

\* the first of a set of positions
First(hits) == CHOOSE k \in hits : \A j \in hits : k <= j

\* C2: matchPath is deny-first.  A path matching any deny pattern is not
\* allowed, whatever the allow list holds; otherwise it is allowed exactly
\* when it matches an allow pattern; a path matching nothing is not allowed.
\* The reason names the first matching pattern in list order.
C2_DenyFirst ==
    Called("matchPath") =>
        LET denyHits == Hits(call.path, call.denyPatterns)
            allowHits == Hits(call.path, call.allowPatterns)
        IN  /\ denyHits # {} =>
                  /\ ~ret.allowed
                  /\ ret.reason = "path \"" \o call.path \o "\" matches deny pattern \""
                        \o call.denyPatterns[First(denyHits)] \o "\""
            /\ (denyHits = {} /\ allowHits # {}) =>
                  /\ ret.allowed
                  /\ ret.reason = "path \"" \o call.path \o "\" matches allow pattern \""
                        \o call.allowPatterns[First(allowHits)] \o "\""
            /\ (denyHits = {} /\ allowHits = {}) =>
                  /\ ~ret.allowed
                  /\ ret.reason = "path \"" \o call.path
                        \o "\" does not match any training path pattern"

\* a path that both lists match, refused with the second pattern of the deny
\* list, the first one there that matches
C2_Witness ==
    /\ Called("matchPath")
    /\ Hits(call.path, call.allowPatterns) # {}
    /\ Hits(call.path, call.denyPatterns) = {2}
    /\ ~ret.allowed

\* the entry of doc.agents read for the agent of the call, and the wildcard's
OwnBlock ==
    IF ToLowerCase(call.agentName) \in DOMAIN doc.agents
    THEN doc.agents[ToLowerCase(call.agentName)] ELSE EmptyObj

WildBlock == IF "*" \in DOMAIN doc.agents THEN doc.agents["*"] ELSE EmptyObj

\* C3: resolve takes each of training, scraping, indexing and caching from
\* the first of three places that defines it: the agent's own block, the
\* wildcard block agents["*"], the site-wide policies.  rateLimit falls back
\* from the agent's block to the wildcard block only and is left out when
\* neither has one.  A document without a wildcard entry resolves exactly
\* like the same document with an empty wildcard entry.
C3_Fallback ==
    Called("resolve") =>
        /\ \A f \in Fields :
              ret[f] = IF f \in DOMAIN OwnBlock THEN OwnBlock[f]
                       ELSE IF f \in DOMAIN WildBlock THEN WildBlock[f]
                       ELSE doc.policies[f]
        /\ "rateLimit" \in DOMAIN OwnBlock =>
              "rateLimit" \in DOMAIN ret /\ ret.rateLimit = OwnBlock.rateLimit
        /\ ("rateLimit" \notin DOMAIN OwnBlock /\ "rateLimit" \in DOMAIN WildBlock) =>
              "rateLimit" \in DOMAIN ret /\ ret.rateLimit = WildBlock.rateLimit
        /\ ("rateLimit" \notin DOMAIN OwnBlock /\ "rateLimit" \notin DOMAIN WildBlock) =>
              "rateLimit" \notin DOMAIN ret
        /\ "*" \notin DOMAIN doc.agents =>
              ret = resolve([doc EXCEPT !.agents = Put(@, "*", EmptyObj)], call.agentName)

\* the agent's block leaves training to a wildcard block that differs from
\* the site-wide policy, and the rate limit comes from the wildcard too
C3_Witness ==
    /\ Called("resolve")
    /\ ToLowerCase(call.agentName) \in DOMAIN doc.agents
    /\ "training" \notin DOMAIN OwnBlock
    /\ "training" \in DOMAIN WildBlock
    /\ WildBlock.training # doc.policies.training
    /\ ret.training = WildBlock.training
    /\ "rateLimit" \notin DOMAIN OwnBlock
    /\ "rateLimit" \in DOMAIN ret

\* the keys of doc.agents that name the agent of the call when case is ignored
KeysIgnoringCase ==
    { k \in DOMAIN doc.agents : ToLowerCase(k) = ToLowerCase(call.agentName) }

LowercaseAgents ==
    [k \in { j \in DOMAIN doc.agents : j = ToLowerCase(j) } |-> doc.agents[k]]

ConditionalTrainingCall ==
    /\ Called("canAccess")
    /\ call.field = "training"
    /\ ResolvedValue = "conditional"
    /\ "trainingPaths" \in DOMAIN doc
    /\ call.path # Undefined

\* C5 as stated: for every supplied path string, canAccess answers what
\* matchPath answers for the path and the document's allow and deny lists.
C5_DelegatesEveryPath ==
    ConditionalTrainingCall =>
        ret = matchPath(Get(call.path), doc.trainingPaths.allow, doc.trainingPaths.deny)

\* C5: when training resolves to conditional, the document has trainingPaths
\* and a non-empty path string is supplied, canAccess answers exactly what
\* matchPath answers for that path and the document's allow and deny lists:
\* the same allowed flag and the same reason.
C5_DelegatesNonEmptyPath ==
    (ConditionalTrainingCall /\ Get(call.path) # "") =>
        ret = matchPath(Get(call.path), doc.trainingPaths.allow, doc.trainingPaths.deny)

\* a supplied path under the allow list refused by the deny list
C5_Witness ==
    /\ ConditionalTrainingCall
    /\ Get(call.path) # ""
    /\ ~ret.allowed
    /\ Hits(Get(call.path), doc.trainingPaths.deny) # {}
    /\ Hits(Get(call.path), doc.trainingPaths.allow) # {}

-----------------------------------------------------------------------------
(* Properties of the parser, checked under SpecSite and Spec *)

\* How a line of the input reads, told from the line alone.
IsSkipped(raw) == Trim(raw) = "" \/ StartsWith(Trim(raw), "#")

IsFieldLine(raw) == ~IsSkipped(raw) /\ ~isIndented(raw) /\ IndexOf(raw, ":") >= 0

KeyOf(raw) == ToLowerCase(Trim(Slice(raw, 0, IndexOf(raw, ":"))))

ValueOf(raw) == Trim(SliceFrom(raw, IndexOf(raw, ":") + 1))

\* the positions of the non-indented lines of the input that give field k
FieldLines(k) == { i \in 1..Len(lines) : IsFieldLine(lines[i]) /\ KeyOf(lines[i]) = k }

Last(S) == LET set == S IN CHOOSE i \in set : \A j \in set : j <= i

\* the value the last such line gives, if there is one
LastRecorded(k) ==
    LET given == FieldLines(k)
    IN  IF given = {} THEN Undefined ELSE Some(ValueOf(lines[Last(given)]))

Recorded(k) == LET v == LastRecorded(k) IN v # Undefined /\ Get(v) # ""

\* C6: a parse succeeds exactly when the last value recorded for Site-Name
\* and the last recorded for Site-URL are both non-empty.  A success carries
\* the document and no error; otherwise the result has success = false, one
\* error per missing field, naming it, and no document.  Warnings have no
\* part in the outcome.
C6_RequiredFields ==
    result # Undefined =>
        LET r == Get(result)
            missing == (IF Recorded("site-name") THEN <<>> ELSE <<"Site-Name">>)
                       \o (IF Recorded("site-url") THEN <<>> ELSE <<"Site-URL">>)
        IN  /\ r.success = (Recorded("site-name") /\ Recorded("site-url"))
            /\ r.success =>
                  /\ "document" \in DOMAIN r
                  /\ r.errors = <<>>
                  /\ r.document.site.name = Get(LastRecorded("site-name"))
                  /\ r.document.site.url = Get(LastRecorded("site-url"))
            /\ ~r.success =>
                  /\ "document" \notin DOMAIN r
                  /\ Len(r.errors) = Len(missing)
                  /\ \A i \in 1..Len(missing) :
                        /\ r.errors[i].field = missing[i]
                        /\ r.errors[i].message = missing[i] \o " is required"

\* both fields were given, a later empty Site-URL makes the parse fail with
\* one error, and the input has drawn a warning as well
C6_Witness ==
    /\ result # Undefined
    /\ ~Get(result).success
    /\ Len(Get(result).errors) = 1
    /\ Get(result).errors[1].field = "Site-URL"
    /\ Cardinality(FieldLines("site-url")) = 2
    /\ Len(Get(result).warnings) > 0

\* the parse has returned a document
Parsed == result # Undefined /\ Get(result).success

\* the positions of the lines that open an Agent block, and the names opened
OpensBlock(raw) == IsFieldLine(raw) /\ KeyOf(raw) = "agent" /\ ValueOf(raw) # ""

AgentLines == { i \in 1..Len(lines) : OpensBlock(lines[i]) }

NameAt(i) == ToLowerCase(ValueOf(lines[i]))

Declared == { NameAt(i) : i \in AgentLines }

LastOpen(n) == LET opening == AgentLines IN Last({ i \in opening : NameAt(i) = n })

\* the lines that open a block for a name an earlier line has opened
Reopenings ==
    LET opening == AgentLines
        name == [i \in opening |-> NameAt(i)]
    IN  { i \in opening : \E j \in opening : j < i /\ name[j] = name[i] }

\* the agents collected from the lines i.. of the input read on their own
AgentsFrom(i) ==
    ParseEnd(ParseLoop(ParseStart, SubSeq(lines, i, Len(lines)), 1)).agents

HasUpperCase(s) == \E i \in 1..Len(s) : CharAt(s, i) \in DOMAIN LowerOf

DuplicateWarnings ==
    { k \in 1..Len(ps.warnings) :
          /\ "field" \in DOMAIN ps.warnings[k]
          /\ ps.warnings[k].field = "Agent"
          /\ StartsWith(ps.warnings[k].message, "Duplicate Agent block") }

\* C8: the agent keys of a parsed document are lower-case.  Agent blocks
\* whose names differ only in case collapse to one entry, which holds the
\* fields of the last of them and none of an earlier one's.  Each line that
\* re-opens a name opened before adds one warning.
C8_LowercaseLastWins ==
    /\ LET warned == DuplicateWarnings
           reopening == Reopenings
       IN  /\ { ps.warnings[k].line : k \in warned } = reopening
           /\ Cardinality(warned) = Cardinality(reopening)
    /\ Parsed =>
          LET agents == Get(result).document.agents
          IN  /\ \A k \in DOMAIN agents : ~HasUpperCase(k)
              /\ \A i \in AgentLines : NameAt(i) \in DOMAIN agents
              /\ \A n \in Declared : agents[n] = AgentsFrom(LastOpen(n))[n]

\* ClaudeBot is opened twice in different casings: the entry holds the
\* second block's field, not the first one's, and one warning was added
C8_Witness ==
    /\ Parsed
    /\ { ValueOf(lines[i]) : i \in AgentLines } = {"ClaudeBot", "CLAUDEBOT"}
    /\ \E i \in 1..Len(lines) :
          /\ i < LastOpen("claudebot")
          /\ lines[i] = "  Training: allow"
    /\ DOMAIN Get(result).document.agents = {"claudebot"}
    /\ DOMAIN Get(result).document.agents["claudebot"] = {"scraping"}
    /\ Cardinality(DuplicateWarnings) = 1

\* the lines that are neither blank, nor a comment, nor indented
TopLines == { i \in 1..Len(lines) : ~IsSkipped(lines[i]) /\ ~isIndented(lines[i]) }

\* the block the input read so far leaves open: the one of the last such
\* line, when it is an Agent line
OpenBlock ==
    LET top == TopLines
    IN  IF top # {} /\ OpensBlock(lines[Last(top)])
        THEN Some(NameAt(Last(top)))
        ELSE Undefined

\* while the input is read, the parser's open block is the input's
OpenBlockTracked ==
    result = Undefined =>
        LET open == OpenBlock
        IN  /\ ps.currentAgentName = open
            /\ ps.state = IF open = Undefined THEN "TOP_LEVEL" ELSE "IN_AGENT"
            /\ IsDefined(ps.currentAgentPolicy) <=> IsDefined(open)

\* the line a step reads, and the steps by the kind of that line
LineRead == lines'[Len(lines')]

ReadsIndented == lines' # lines /\ isIndented(LineRead) /\ ~IsSkipped(LineRead)

ReadsTop == lines' # lines /\ ~isIndented(LineRead) /\ ~IsSkipped(LineRead)

SameExcept(flds) == \A f \in (DOMAIN ps) \ flds : ps'[f] = ps[f]

\* an indented line in a block changes the open block only (or warns)
IndentedInBlock ==
    (ReadsIndented /\ OpenBlock # Undefined) =>
        /\ SameExcept({"currentAgentPolicy", "warnings"})
        /\ IsDefined(ps'.currentAgentPolicy)

\* an indented line outside of a block adds a warning and changes nothing
IndentedOutside ==
    (ReadsIndented /\ OpenBlock = Undefined) =>
        /\ SameExcept({"warnings"})
        /\ Len(ps'.warnings) = Len(ps.warnings) + 1
        /\ SubSeq(ps'.warnings, 1, Len(ps.warnings)) = ps.warnings
        /\ ps'.warnings[Len(ps'.warnings)].line = Len(lines')
        /\ BuildDocument(ParseEnd(ps')) = BuildDocument(ParseEnd(ps))

\* a non-indented line closes the open block and stores it
TopLineCloses ==
    LET open == OpenBlock
    IN  (ReadsTop /\ open # Undefined) =>
            /\ Get(open) \in DOMAIN ps'.agents
            /\ ps'.agents[Get(open)] = Get(ps.currentAgentPolicy)
            /\ \A n \in (DOMAIN ps.agents) \ {Get(open)} :
                  n \in DOMAIN ps'.agents /\ ps'.agents[n] = ps.agents[n]
            /\ ~OpensBlock(LineRead) =>
                  ps'.state = "TOP_LEVEL" /\ ps'.currentAgentPolicy = Undefined

\* the end of the input closes the open block and stores it
EndCloses ==
    LET open == OpenBlock
    IN  (result' # result /\ open # Undefined) =>
            /\ ps'.agents[Get(open)] = Get(ps.currentAgentPolicy)
            /\ Get(result').success =>
                  Get(result').document.agents[Get(open)] = Get(ps.currentAgentPolicy)

\* C9: indented field lines modify only the Agent block opened by the
\* nearest preceding Agent line, and only while no other non-indented line
\* has come between; any non-indented line, or the end of the input, closes
\* the block and stores it; an indented field line met while no block is
\* open adds a warning and changes nothing in the document.
C9_BlockScope ==
    /\ []OpenBlockTracked
    /\ [][IndentedInBlock /\ IndentedOutside /\ TopLineCloses /\ EndCloses]_vars

\* a block with one field was closed by a top-level line, and the indented
\* line after it was discarded with a warning
C9_Witness ==
    /\ Parsed
    /\ \E i \in AgentLines :
          /\ i + 3 = Len(lines)
          /\ isIndented(lines[i + 1]) /\ ~IsSkipped(lines[i + 1])
          /\ i + 2 \in TopLines
          /\ i + 2 \notin AgentLines
          /\ isIndented(lines[i + 3]) /\ ~IsSkipped(lines[i + 3])
          /\ lines[i + 3] # lines[i + 1]
          /\ Cardinality(DOMAIN Get(result).document.agents[NameAt(i)]) = 1
    /\ Len(Get(result).warnings) = 1

\* the values the claim names: the policy values, the defaults, the levels
PolicyValues == {"allow", "deny", "conditional"}

DefaultPolicy ==
    [training |-> "deny", scraping |-> "allow", indexing |-> "allow", caching |-> "allow"]

RequirementLevels == {"required", "recommended", "optional", "none"}

\* <positive integer>/<second|minute|hour|day>
IsRate(v) ==
    \E k \in 2..Len(v) :
        /\ CharAt(v, k) = "/"
        /\ SubSeq(v, k + 1, Len(v)) \in {"second", "minute", "hour", "day"}
        /\ \A j \in 1..(k - 1) : CharAt(v, j) \in {"0", "1", "2", "3", "4", "5", "6", "7", "8", "9"}
        /\ \E j \in 1..(k - 1) : CharAt(v, j) # "0"

\* the top-level lines that give policy field f a valid value
ValidLines(f) == { i \in FieldLines(f) : ValueOf(lines[i]) \in PolicyValues }

\* a line carrying an invalid value: a policy value or a requirement level on
\* a top-level line, a policy value or a rate limit on an indented one
InvalidTopLine(raw) ==
    /\ IsFieldLine(raw)
    /\ \/ KeyOf(raw) \in Fields /\ ValueOf(raw) \notin PolicyValues
       \/ /\ KeyOf(raw) \in {"attribution", "ai-disclosure", "audit"}
          /\ ValueOf(raw) \notin RequirementLevels

InvalidBlockLine(raw) ==
    /\ isIndented(raw) /\ ~IsSkipped(raw) /\ IndexOf(raw, ":") >= 0
    /\ \/ KeyOf(raw) \in Fields /\ ValueOf(raw) \notin PolicyValues
       \/ KeyOf(raw) = "rate-limit" /\ ~IsRate(ValueOf(raw))

OneMoreWarning ==
    /\ Len(ps'.warnings) = Len(ps.warnings) + 1
    /\ SubSeq(ps'.warnings, 1, Len(ps.warnings)) = ps.warnings
    /\ ps'.warnings[Len(ps'.warnings)].line = Len(lines')
    /\ ps'.errors = <<>>

\* an invalid value on a top-level line: a warning, and no field is set (the
\* line closes the open block as any top-level line does)
InvalidTopWarns ==
    (lines' # lines /\ InvalidTopLine(LineRead)) =>
        /\ OneMoreWarning
        /\ "field" \in DOMAIN ps'.warnings[Len(ps'.warnings)]
        /\ SameExcept({"warnings", "agents", "state", "currentAgentName", "currentAgentPolicy"})
        /\ ps'.agents = flushAgent(ps).agents

\* an invalid value on an indented line: a warning, and nothing else changes
InvalidBlockWarns ==
    (lines' # lines /\ InvalidBlockLine(LineRead)) =>
        /\ OneMoreWarning
        /\ OpenBlock # Undefined => "field" \in DOMAIN ps'.warnings[Len(ps'.warnings)]
        /\ SameExcept({"warnings"})

PoliciesValidOrDefault ==
    /\ result = Undefined => ps.errors = <<>>
    /\ result # Undefined =>
          Get(result).success = (Recorded("site-name") /\ Recorded("site-url"))
    /\ Parsed =>
          \A f \in Fields :
              LET valid == ValidLines(f)
              IN  /\ Get(result).document.policies[f] \in PolicyValues
                  /\ Get(result).document.policies[f] =
                        IF valid = {} THEN DefaultPolicy[f]
                        ELSE ValueOf(lines[Last(valid)])

\* C10: in every parsed document each of the four policies is allow, deny
\* or conditional, and a field no valid line set has its default
\* (training=deny, the others allow).  A line carrying an invalid value (a
\* top-level or agent-block policy value, a requirement level, a Rate-Limit
\* in a block that is not <positive integer>/<window>) adds a warning, sets
\* nothing, and does not make the parse fail.
C10_InvalidValuesWarn ==
    /\ []PoliciesValidOrDefault
    /\ [][InvalidTopWarns /\ InvalidBlockWarns]_vars

\* an input with an invalid top-level policy value, left to its default, an
\* invalid line inside a block, and a valid policy line: parsed with two
\* warnings
C10_Witness ==
    /\ Parsed
    /\ \E i \in 1..Len(lines) : lines[i] = "Caching: Allow"
    /\ \E i \in 1..Len(lines) : InvalidBlockLine(lines[i]) /\ i - 1 \in AgentLines
    /\ Get(result).document.policies.caching = "allow"
    /\ Len(Get(result).warnings) = 2

-----------------------------------------------------------------------------
(* globMatch called on its own: SpecGlob *)

\* the lengths up to which patterns and paths are enumerated
MaxGlobPattern == 4
MaxGlobPath == 3

\* the strings over an alphabet of length at most n
RECURSIVE StringsUpTo(_, _)
StringsUpTo(alphabet, n) ==
    IF n = 0 THEN {""}
    ELSE LET shorter == StringsUpTo(alphabet, n - 1)
         IN  shorter \cup {s \o c : s \in shorter, c \in alphabet}

Twice(s) == s \o s
Times2048(s) == Twice(Twice(Twice(Twice(Twice(Twice(Twice(Twice(Twice(Twice(Twice(s)))))))))))

\* "*".repeat(1001) and "a".repeat(2001): one character over each ceiling
LongPattern == SubSeq(Times2048("*"), 1, MaxPatternLength + 1)
LongPath == SubSeq(Times2048("a"), 1, MaxPathLength + 1)

\* the patterns of the globMatch tests, with placeholder characters, regex
\* metacharacters and an unbalanced bracket among them
TestPatterns ==
    {"/blog/*", "/blog/**", "/public/*.html", "/api/*/users/*", "/file.txt",
     "/a/**/e", "/a/**/c/**/e", "/test" \o U0001, "/" \o U0002 \o "a",
     "/*" \o U0001 \o "*/a", "/test[", "a+", "(a", ".", "/**/e", "a/**/",
     "/a/**/**/e", "/*/**/*"}

TestPaths ==
    {"/blog/post-1", "/blog/2024/post-1", "/blog/", "/public/index.html",
     "/api/v2/users/123", "/file.txt", "/filextxt", "/a/e", "/a/b/c/d/e",
     "/a/c/e", "/a//e", "/a///e", "/test", "/test[", "/test" \o U0001, "a+",
     "aa", ".", "/a\n/e", "a\n", "/a\r"}

GlobPatterns == StringsUpTo({"/", "*", "a"}, MaxGlobPattern) \cup TestPatterns \cup {LongPattern}
GlobPaths == StringsUpTo({"/", "a", "e"}, MaxGlobPath) \cup TestPaths \cup {LongPath}

InitGlob ==
    /\ ParserIdle
    /\ heap = <<>>
    /\ ClientIdle
    /\ doc = Undefined
    /\ call = Undefined
    /\ ret = Undefined

GlobMatch ==
    /\ call = Undefined
    /\ \E path \in GlobPaths, pattern \in GlobPatterns :
          /\ call' = [op |-> "globMatch", path |-> path, pattern |-> pattern]
          /\ ret' = globMatch(path, pattern)
    /\ UNCHANGED <<client, now, stored, heap, lines, ps, result, doc>>

NextGlob == GlobMatch

SpecGlob == InitGlob /\ [][NextGlob]_vars

-----------------------------------------------------------------------------
(* Properties of globMatch, checked under SpecGlob *)

WithinCeilings(path, pattern) ==
    Len(pattern) <= MaxPatternLength /\ Len(path) <= MaxPathLength

\* the rules as stated: ** is any run of characters, * any run of characters
\* other than /, any other character is itself
RECURSIVE MatchesRules(_, _)
MatchesRules(path, pattern) ==
    IF pattern = "" THEN path = ""
    ELSE IF StartsWith(pattern, "**")
    THEN \E k \in 0..Len(path) :
            MatchesRules(SubSeq(path, k + 1, Len(path)), SubSeq(pattern, 3, Len(pattern)))
    ELSE IF StartsWith(pattern, "*")
    THEN \E k \in 0..Len(path) :
            /\ NoSlash(SubSeq(path, 1, k))
            /\ MatchesRules(SubSeq(path, k + 1, Len(path)), SubSeq(pattern, 2, Len(pattern)))
    ELSE /\ path # ""
         /\ CharAt(path, 1) = CharAt(pattern, 1)
         /\ MatchesRules(SubSeq(path, 2, Len(path)), SubSeq(pattern, 2, Len(pattern)))

Contains(s, needle) == \E k \in 1..Len(s) : StartsWith(SubSeq(s, k, Len(s)), needle)

PlainGlob(path, pattern) ==
    /\ ~Contains(pattern, "/**/")
    /\ ~Contains(pattern, U0001)
    /\ ~Contains(pattern, U0002)
    /\ NoLineTerminator(path)

UnitPlaces(pattern) ==
    {k \in 1..Len(pattern) : StartsWith(SubSeq(pattern, k, Len(pattern)), "/**/")}

\* the path is p + "/" + s, or p + "/" + m + "/" + s with m not empty, where p
\* matches the pattern P and s the pattern S
SplitsAround(path, P, S) ==
    \E i \in 1..Len(path) :
        /\ CharAt(path, i) = "/"
        /\ globMatch(SubSeq(path, 1, i - 1), P)
        /\ \/ globMatch(SubSeq(path, i + 1, Len(path)), S)
           \/ \E j \in (i + 2)..Len(path) :
                 /\ CharAt(path, j) = "/"
                 /\ globMatch(SubSeq(path, j + 1, Len(path)), S)

\* C12: the unit /**/ matches zero or more whole intervening path segments.
\* For every pattern P + "/**/" + S, a path matches it exactly when the path
\* is p + "/" + s, or p + "/" + m + "/" + s with m a non-empty run of
\* segments, where p matches P and s matches S; this holds at every
\* occurrence of the unit in a pattern.
C12_UnitSpansSegments ==
    (Called("globMatch") /\ WithinCeilings(call.path, call.pattern)) =>
        \A k \in UnitPlaces(call.pattern) :
            ret <=> SplitsAround(call.path,
                                 SubSeq(call.pattern, 1, k - 1),
                                 SubSeq(call.pattern, k + 4, Len(call.pattern)))

\* C13: globMatch returns false for every pattern longer than 1000 characters
\* and for every path longer than 2000 characters, whatever the other
\* argument is; for every input (patterns with unbalanced brackets or with the
\* placeholder characters U+0001/U+0002 included) the expression it builds is
\* one the RegExp constructor accepts, and it returns a boolean.
C13_CeilingsAndNoThrow ==
    Called("globMatch") =>
        /\ ret \in BOOLEAN
        /\ Len(call.pattern) > MaxPatternLength => ret = FALSE
        /\ Len(call.path) > MaxPathLength => ret = FALSE
        /\ WithinCeilings(call.path, call.pattern) => RegexCompiles(RegexStr(call.pattern))

\* an argument over its ceiling that would match if it were looked at
C13_Witness ==
    /\ Called("globMatch")
    /\ \/ call.pattern = LongPattern /\ call.path = "aa"
       \/ call.path = LongPath /\ call.pattern = "**"
    /\ ret = FALSE

-----------------------------------------------------------------------------
(* utils: sanitizeValue and formatRateLimit.  A JavaScript string is a
   sequence of UTF-16 code units; sanitizeValue is modelled on the code units
   so that characters outside ASCII can be told apart *)

\* the characters U+0020 .. U+005F and U+0061 .. U+007E in code order
PrintableLow ==
    " !\"#$%&'()*+,-./0123456789:;<=>?@ABCDEFGHIJKLMNOPQRSTUVWXYZ[\\]^_"
PrintableHigh == "abcdefghijklmnopqrstuvwxyz{|}~"

\* String.prototype.charCodeAt for one character
charCodeAt(c) ==
    IF c = "\t" THEN 9
    ELSE IF c = "\n" THEN 10
    ELSE IF c = "\r" THEN 13
    ELSE IF c = U0001 THEN 1
    ELSE IF c = U0002 THEN 2
    ELSE IF \E k \in 1..Len(PrintableLow) : CharAt(PrintableLow, k) = c
    THEN 31 + (CHOOSE k \in 1..Len(PrintableLow) : CharAt(PrintableLow, k) = c)
    ELSE 96 + (CHOOSE k \in 1..Len(PrintableHigh) : CharAt(PrintableHigh, k) = c)

\* String.fromCharCode for one code unit
fromCharCode(u) ==
    IF u = 9 THEN "\t"
    ELSE IF u = 10 THEN "\n"
    ELSE IF u = 13 THEN "\r"
    ELSE IF u = 1 THEN U0001
    ELSE IF u = 2 THEN U0002
    ELSE IF u <= 95 THEN CharAt(PrintableLow, u - 31)
    ELSE CharAt(PrintableHigh, u - 96)

ToUnits(s) == [k \in 1..Len(s) |-> charCodeAt(CharAt(s, k))]

RECURSIVE FromUnits(_)
FromUnits(units) ==
    IF units = <<>> THEN ""
    ELSE fromCharCode(Head(units)) \o FromUnits(Tail(units))

\* the code units String.prototype.trim removes: WhiteSpace and LineTerminator
TrimmedUnits ==
    {9, 10, 11, 12, 13, 32, 160, 5760, 8232, 8233, 8239, 8287, 12288, 65279}
        \cup (8192..8202)

RECURSIVE TrimUnitsStart(_)
TrimUnitsStart(units) ==
    IF units # <<>> /\ Head(units) \in TrimmedUnits
    THEN TrimUnitsStart(Tail(units))
    ELSE units

RECURSIVE TrimUnitsEnd(_)
TrimUnitsEnd(units) ==
    IF units # <<>> /\ units[Len(units)] \in TrimmedUnits
    THEN TrimUnitsEnd(SubSeq(units, 1, Len(units) - 1))
    ELSE units

TrimUnits(units) == TrimUnitsEnd(TrimUnitsStart(units))

\* .replace(/[\r\n]/g, " ")
SpaceForNewlines(units) ==
    [k \in 1..Len(units) |-> IF units[k] \in {10, 13} THEN 32 ELSE units[k]]

\* .replace(/[\x00-\x1f]/g, "")
StripControls(units) == SelectSeq(units, LAMBDA u : u \notin 0..31)

\* sanitizeValue on the code units of str, lines 226-230
\* .slice(0, end): a negative end counts from the end of the string
SliceUnits(units, end) ==
    LET to == IF end < 0
              THEN (IF Len(units) + end < 0 THEN 0 ELSE Len(units) + end)
              ELSE (IF end > Len(units) THEN Len(units) ELSE end)
    IN  SubSeq(units, 1, to)

sanitizeUnits(units, maxLength) ==
    SliceUnits(TrimUnits(StripControls(SpaceForNewlines(units))), maxLength)

DefaultMaxLength == 500

\* sanitizeValue(value) for a string value and the default maxLength
sanitizeValue(str) == FromUnits(sanitizeUnits(ToUnits(str), DefaultMaxLength))

\* formatRateLimit
formatRateLimit(requests, window) == ToString(requests) \o "/" \o window

-----------------------------------------------------------------------------
(* generator: generate *)

\* lines.join(sep)
RECURSIVE Join(_, _)
Join(ls, sep) ==
    IF ls = <<>> THEN ""
    ELSE IF Len(ls) = 1 THEN ls[1]
    ELSE ls[1] \o sep \o Join(Tail(ls), sep)

\* input.split(/\r?\n/): the text up to the first line feed, less a carriage
\* return right before it, then the lines of the rest
RECURSIVE Split(_)
Split(input) ==
    LET lf == IndexOf(input, "\n")
        upTo == Slice(input, 0, lf)
        line == IF upTo # "" /\ CharAt(upTo, Len(upTo)) = "\r"
                THEN Slice(upTo, 0, Len(upTo) - 1)
                ELSE upTo
    IN  IF lf = -1 THEN <<input>>
        ELSE <<line>> \o Split(SliceFrom(input, lf + 1))

\* if (value) lines.push(label + value), with the value sanitized
SanitizedLine(label, opt) ==
    IF Truthy(opt) THEN <<label \o sanitizeValue(Get(opt))>> ELSE <<>>

\* if (value) lines.push(label + value), with the value as it is
PlainLine(label, opt) ==
    IF Truthy(opt) THEN <<label \o Get(opt)>> ELSE <<>>

\* lines.push("") when one of the two values is truthy
BlankAfter(a, b) == IF Truthy(a) \/ Truthy(b) THEN <<"">> ELSE <<>>

\* one line for each pattern of a list, lines 41-46
RECURSIVE PatternLines(_, _)
PatternLines(label, patterns) ==
    IF patterns = <<>> THEN <<>>
    ELSE <<label \o Head(patterns)>> \o PatternLines(label, Tail(patterns))

\* lines 67-82: the block of one agent
AgentBlockLines(agent, policy) ==
    <<"Agent: " \o agent>>
    \o PlainLine("  Training: ", Field(policy, "training"))
    \o PlainLine("  Scraping: ", Field(policy, "scraping"))
    \o PlainLine("  Indexing: ", Field(policy, "indexing"))
    \o PlainLine("  Caching: ", Field(policy, "caching"))
    \o (IF "rateLimit" \in DOMAIN policy
        THEN <<"  Rate-Limit: "
               \o formatRateLimit(policy.rateLimit.requests, policy.rateLimit.window)>>
        ELSE <<>>)

\* lines 66-83, for the agents in the order `keys`
RECURSIVE AgentsLines(_, _)
AgentsLines(agents, keys) ==
    IF keys = <<>> THEN <<>>
    ELSE AgentBlockLines(Head(keys), agents[Head(keys)]) \o AgentsLines(agents, Tail(keys))

\* lines 114-116, for the entries in the order `keys`
RECURSIVE MetadataLines(_, _)
MetadataLines(metadata, keys) ==
    IF keys = <<>> THEN <<>>
    ELSE <<Head(keys) \o ": " \o sanitizeValue(metadata[Head(keys)])>>
         \o MetadataLines(metadata, Tail(keys))

\* the orders in which Object.entries may list the keys of an object: the
\* objects of the model keep no insertion order, so every order is allowed
EntryOrders(obj) ==
    {keys \in [1..Cardinality(DOMAIN obj) -> DOMAIN obj] :
        \A i, j \in 1..Cardinality(DOMAIN obj) : keys[i] = keys[j] => i = j}

\* the lines pushed by generate, lines 8-117.  agentKeys and metadataKeys are
\* the orders of Object.entries(doc.agents) and Object.entries(doc.metadata).
\* The dash of the first header line is written "--".
GenerateLines(d, agentKeys, metadataKeys) ==
    LET header ==
            <<"# ai.txt -- AI Policy Declaration", "# Spec-Version: " \o d.specVersion>>
            \o PlainLine("# Generated: ", Field(d, "generatedAt"))
            \o <<"">>
        site ==
            <<"Site-Name: " \o sanitizeValue(d.site.name),
              "Site-URL: " \o sanitizeValue(d.site.url)>>
            \o SanitizedLine("Description: ", Field(d.site, "description"))
            \o SanitizedLine("Contact: ", Field(d.site, "contact"))
            \o SanitizedLine("Policy-URL: ", Field(d.site, "policyUrl"))
            \o <<"">>
        policies ==
            <<"Training: " \o d.policies.training, "Scraping: " \o d.policies.scraping,
              "Indexing: " \o d.policies.indexing, "Caching: " \o d.policies.caching, "">>
        trainingPaths ==
            IF "trainingPaths" \in DOMAIN d
            THEN PatternLines("Training-Allow: ", d.trainingPaths.allow)
                 \o PatternLines("Training-Deny: ", d.trainingPaths.deny)
                 \o (IF Len(d.trainingPaths.allow) > 0 \/ Len(d.trainingPaths.deny) > 0
                     THEN <<"">> ELSE <<>>)
            ELSE <<>>
        licensing ==
            IF "licensing" \in DOMAIN d
            THEN SanitizedLine("Training-License: ", Field(d.licensing, "license"))
                 \o SanitizedLine("Training-Fee: ", Field(d.licensing, "feeUrl"))
                 \o BlankAfter(Field(d.licensing, "license"), Field(d.licensing, "feeUrl"))
            ELSE <<>>
        agents == AgentsLines(d.agents, agentKeys) \o <<"">>
        content ==
            IF "content" \in DOMAIN d
            THEN PlainLine("Attribution: ", Field(d.content, "attribution"))
                 \o PlainLine("AI-Disclosure: ", Field(d.content, "aiDisclosure"))
                 \o BlankAfter(Field(d.content, "attribution"), Field(d.content, "aiDisclosure"))
            ELSE <<>>
        compliance ==
            IF "compliance" \in DOMAIN d
            THEN PlainLine("Audit: ", Field(d.compliance, "audit"))
                 \o SanitizedLine("Audit-Format: ", Field(d.compliance, "auditFormat"))
                 \o BlankAfter(Field(d.compliance, "audit"), Field(d.compliance, "auditFormat"))
            ELSE <<>>
        metadata ==
            IF "metadata" \in DOMAIN d
            THEN MetadataLines(d.metadata, metadataKeys)
            ELSE <<>>
    IN  header \o site \o policies \o trainingPaths \o licensing \o agents
        \o content \o compliance \o metadata

\* the lines joined, without the line feed after the last line
generate_joined(d, agentKeys, metadataKeys) ==
    Join(GenerateLines(d, agentKeys, metadataKeys), "\n")

\* generate, lines 7-120: lines.join("\n") + "\n"
generate(d, agentKeys, metadataKeys) ==
    Join(GenerateLines(d, agentKeys, metadataKeys), "\n") \o "\n"

-----------------------------------------------------------------------------
(* JSON text: JSON.stringify(value, null, 2) and JSON.parse.  A JavaScript
   value is written with its type: a string, a number, an array or an object
   whose keys keep their order *)

JString(s) == [t |-> "string", v |-> s]
JNumber(n) == [t |-> "number", v |-> n]
JArray(items) == [t |-> "array", v |-> items]
JObject(keys, members) == [t |-> "object", keys |-> keys, v |-> members]
JOther(word) == [t |-> word]

\* a character written without its escape
QuoteChar_plain(c) == c

\* the escape JSON.stringify writes for a character
QuoteChar(c) ==
    IF c = "\"" THEN "\\\""
    ELSE IF c = "\\" THEN "\\\\"
    ELSE IF c = "\n" THEN "\\n"
    ELSE IF c = "\r" THEN "\\r"
    ELSE IF c = "\t" THEN "\\t"
    ELSE IF c = U0001 THEN "\\u0001"
    ELSE IF c = U0002 THEN "\\u0002"
    ELSE c

RECURSIVE QuoteChars(_)
QuoteChars(s) ==
    IF s = "" THEN "" ELSE QuoteChar(CharAt(s, 1)) \o QuoteChars(SubSeq(s, 2, Len(s)))

\* a string literal; a string that needs no escape is written as it is
Quote(s) ==
    IF \A k \in 1..Len(s) : QuoteChar(CharAt(s, k)) = CharAt(s, k)
    THEN "\"" \o s \o "\""
    ELSE "\"" \o QuoteChars(s) \o "\""

Pad(n) == SubSeq("                ", 1, n)

\* JSON.stringify(x, null, 2) at the given indentation
RECURSIVE Stringify(_, _)
RECURSIVE StringifyItems(_, _)
RECURSIVE StringifyMembers(_, _, _)
Stringify(x, indent) ==
    IF x.t = "string" THEN Quote(x.v)
    ELSE IF x.t = "number" THEN ToString(x.v)
    ELSE IF x.t = "array"
    THEN IF x.v = <<>> THEN "[]"
         ELSE "[\n" \o StringifyItems(x.v, indent + 2) \o "\n" \o Pad(indent) \o "]"
    ELSE IF x.keys = <<>> THEN "{}"
         ELSE "{\n" \o StringifyMembers(x.v, x.keys, indent + 2) \o "\n" \o Pad(indent) \o "}"

StringifyItems(items, indent) ==
    Pad(indent) \o Stringify(Head(items), indent)
    \o (IF Len(items) = 1 THEN "" ELSE ",\n" \o StringifyItems(Tail(items), indent))

StringifyMembers(members, keys, indent) ==
    Pad(indent) \o Quote(Head(keys)) \o ": " \o Stringify(members[Head(keys)], indent)
    \o (IF Len(keys) = 1 THEN "" ELSE ",\n" \o StringifyMembers(members, Tail(keys), indent))

\* the place of the quote that closes the string literal s begins with: the
\* first quote after an even number of backslashes; 0 when there is none
ClosingQuote(s) ==
    LET closes(k) ==
            /\ CharAt(s, k) = "\""
            /\ \E n \in 0..(k - 2) :
                  /\ n % 2 = 0
                  /\ \A j \in 1..n : CharAt(s, k - j) = "\\"
                  /\ CharAt(s, k - n - 1) # "\\" \/ k - n - 1 = 1
    IN  IF \E k \in 2..Len(s) : closes(k)
        THEN CHOOSE k \in 2..Len(s) : closes(k) /\ \A j \in 2..(k - 1) : ~closes(j)
        ELSE 0

\* the characters a string literal stands for
RECURSIVE Unescape(_)
Unescape(s) ==
    IF s = "" THEN ""
    ELSE IF CharAt(s, 1) # "\\" THEN CharAt(s, 1) \o Unescape(SubSeq(s, 2, Len(s)))
    ELSE IF StartsWith(s, "\\u0001") THEN U0001 \o Unescape(SubSeq(s, 7, Len(s)))
    ELSE IF StartsWith(s, "\\u0002") THEN U0002 \o Unescape(SubSeq(s, 7, Len(s)))
    ELSE (IF CharAt(s, 2) = "n" THEN "\n"
          ELSE IF CharAt(s, 2) = "r" THEN "\r"
          ELSE IF CharAt(s, 2) = "t" THEN "\t"
          ELSE CharAt(s, 2))
         \o Unescape(SubSeq(s, 3, Len(s)))

\* how many digits s begins with
LeadingDigits(s) ==
    IF \E k \in 1..Len(s) : ~IsDigit(CharAt(s, k))
    THEN (CHOOSE k \in 1..Len(s) :
              ~IsDigit(CharAt(s, k)) /\ \A j \in 1..(k - 1) : IsDigit(CharAt(s, j))) - 1
    ELSE Len(s)

JsonFail == [ok |-> FALSE]
JsonRead(value, rest) == [ok |-> TRUE, value |-> value, rest |-> rest]

\* JSON.parse: the value the text begins with and the text after it
RECURSIVE JsonValue(_)
RECURSIVE JsonMembers(_, _, _)
RECURSIVE JsonItems(_, _)
JsonValue(text) ==
    LET s == TrimStart(text)
        rest == TrimStart(SubSeq(s, 2, Len(s)))
        close == ClosingQuote(s)
        digits == LeadingDigits(s)
    IN  IF s = "" THEN JsonFail
        ELSE IF CharAt(s, 1) = "\""
        THEN IF close = 0 THEN JsonFail
             ELSE JsonRead(JString(Unescape(SubSeq(s, 2, close - 1))),
                           SubSeq(s, close + 1, Len(s)))
        ELSE IF CharAt(s, 1) = "{"
        THEN IF StartsWith(rest, "}")
             THEN JsonRead(JObject(<<>>, EmptyObj), SubSeq(rest, 2, Len(rest)))
             ELSE JsonMembers(rest, <<>>, EmptyObj)
        ELSE IF CharAt(s, 1) = "["
        THEN IF StartsWith(rest, "]")
             THEN JsonRead(JArray(<<>>), SubSeq(rest, 2, Len(rest)))
             ELSE JsonItems(rest, <<>>)
        ELSE IF digits > 0
        THEN JsonRead(JNumber(ParseInt(SubSeq(s, 1, digits))), SubSeq(s, digits + 1, Len(s)))
        ELSE IF \E word \in {"true", "false", "null"} : StartsWith(s, word)
        THEN LET word == CHOOSE w \in {"true", "false", "null"} : StartsWith(s, w)
             IN  JsonRead(JOther(word), SubSeq(s, Len(word) + 1, Len(s)))
        ELSE JsonFail

\* the members of an object, after the ones read so far
JsonMembers(text, keys, members) ==
    LET close == ClosingQuote(text)
        key == Unescape(SubSeq(text, 2, close - 1))
        afterKey == TrimStart(SubSeq(text, close + 1, Len(text)))
        read == JsonValue(SubSeq(afterKey, 2, Len(afterKey)))
        after == TrimStart(read.rest)
        keys2 == IF key \in DOMAIN members THEN keys ELSE Append(keys, key)
    IN  IF ~StartsWith(text, "\"") \/ close = 0 \/ ~StartsWith(afterKey, ":") THEN JsonFail
        ELSE IF ~read.ok THEN JsonFail
        ELSE IF StartsWith(after, "}")
        THEN JsonRead(JObject(keys2, Put(members, key, read.value)),
                      SubSeq(after, 2, Len(after)))
        ELSE IF StartsWith(after, ",")
        THEN JsonMembers(TrimStart(SubSeq(after, 2, Len(after))), keys2,
                         Put(members, key, read.value))
        ELSE JsonFail

\* the items of an array, after the ones read so far
JsonItems(text, items) ==
    LET read == JsonValue(text)
        after == TrimStart(read.rest)
    IN  IF ~read.ok THEN JsonFail
        ELSE IF StartsWith(after, "]")
        THEN JsonRead(JArray(Append(items, read.value)), SubSeq(after, 2, Len(after)))
        ELSE IF StartsWith(after, ",")
        THEN JsonItems(SubSeq(after, 2, Len(after)), Append(items, read.value))
        ELSE JsonFail

\* JSON.parse(input): the value, or a SyntaxError
JsonParse(input) ==
    LET read == JsonValue(input)
    IN  IF read.ok /\ TrimStart(read.rest) = ""
        THEN [ok |-> TRUE, value |-> read.value]
        ELSE JsonFail

-----------------------------------------------------------------------------
(* schema: AiTxtDocumentSchema.safeParse on a JavaScript value *)

IsLetter(c) == ToLowerChar(c) \in {CharAt("abcdefghijklmnopqrstuvwxyz", k) : k \in 1..26}

\* /^\d+\.\d+$/
IsMajorMinor(s) ==
    LET dot == IndexOf(s, ".")
    IN  /\ dot >= 1
        /\ dot + 1 < Len(s)
        /\ AllDigits(Slice(s, 0, dot))
        /\ AllDigits(SliceFrom(s, dot + 1))

\* z.string().datetime(): YYYY-MM-DDTHH:MM:SS, an optional fraction, then Z
IsDateTime(s) ==
    /\ Len(s) >= 20
    /\ \A k \in 1..19 :
          IF k \in {5, 8} THEN CharAt(s, k) = "-"
          ELSE IF k = 11 THEN CharAt(s, k) = "T"
          ELSE IF k \in {14, 17} THEN CharAt(s, k) = ":"
          ELSE IsDigit(CharAt(s, k))
    /\ CharAt(s, Len(s)) = "Z"
    /\ Len(s) > 20 => /\ CharAt(s, 20) = "."
                      /\ Len(s) > 21
                      /\ AllDigits(SubSeq(s, 21, Len(s) - 1))

\* z.string().url(): new URL(s) accepts the string.  The model decides it by
\* the scheme, and for http and https by a host that is not empty
IsUrl(s) ==
    LET colon == IndexOf(s, ":")
        scheme == ToLowerCase(Slice(s, 0, colon))
        after == SliceFrom(s, colon + 1)
        host == IF StartsWith(after, "//") THEN SliceFrom(after, 2) ELSE after
    IN  /\ colon >= 1
        /\ IsLetter(CharAt(scheme, 1))
        /\ \A k \in 1..Len(scheme) :
              IsLetter(CharAt(scheme, k)) \/ IsDigit(CharAt(scheme, k))
                 \/ CharAt(scheme, k) \in {"+", "-", "."}
        /\ scheme \in {"http", "https"} =>
              host # "" /\ CharAt(host, 1) \notin {"/", "?", "#"} /\ ~Contains(host, " ")

IsText(s) == TRUE
AtMost(n, s) == Len(s) <= n

\* the issue paths of one member of an object against a string schema
StringIssues(o, k, path, required, accepts(_)) ==
    IF k \notin DOMAIN o.v THEN (IF required THEN {path} ELSE {})
    ELSE IF o.v[k].t # "string" THEN {path}
    ELSE IF accepts(o.v[k].v) THEN {} ELSE {path}

EnumIssues(o, k, path, required, values) ==
    StringIssues(o, k, path, required, LAMBDA s : s \in values)

\* the issue paths of an optional or required member against an object schema
ObjectIssues(o, k, path, required, issues(_)) ==
    IF k \notin DOMAIN o.v THEN (IF required THEN {path} ELSE {})
    ELSE IF o.v[k].t # "object" THEN {path}
    ELSE issues(o.v[k])

\* RateLimitSchema
RateLimitIssues(path, r) ==
    (IF "requests" \in DOMAIN r.v /\ r.v.requests.t = "number" /\ r.v.requests.v > 0
     THEN {} ELSE {path \o ".requests"})
    \cup EnumIssues(r, "window", path \o ".window", TRUE, RateLimitWindows)

\* AgentPolicySchema
AgentPolicyIssues(path, a) ==
    UNION {EnumIssues(a, f, path \o "." \o f, FALSE, VALID_POLICY_VALUES) : f \in Fields}
    \cup ObjectIssues(a, "rateLimit", path \o ".rateLimit", FALSE,
                      LAMBDA r : RateLimitIssues(path \o ".rateLimit", r))

\* z.array(z.string())
StringArrayIssues(o, k, path) ==
    IF k \notin DOMAIN o.v \/ o.v[k].t # "array" THEN {path}
    ELSE IF \A i \in 1..Len(o.v[k].v) : o.v[k].v[i].t = "string" THEN {} ELSE {path}

\* the paths of the issues AiTxtDocumentSchema finds in a value, lines 83-94
SchemaIssues(raw) ==
    IF raw.t # "object" THEN {""}
    ELSE StringIssues(raw, "specVersion", "specVersion", TRUE, IsMajorMinor)
         \cup StringIssues(raw, "generatedAt", "generatedAt", FALSE, IsDateTime)
         \cup ObjectIssues(raw, "site", "site", TRUE, LAMBDA s :
                StringIssues(s, "name", "site.name", TRUE,
                             LAMBDA v : Len(v) >= 1 /\ AtMost(200, v))
                \cup StringIssues(s, "url", "site.url", TRUE, IsUrl)
                \cup StringIssues(s, "description", "site.description", FALSE,
                                  LAMBDA v : AtMost(500, v))
                \cup StringIssues(s, "contact", "site.contact", FALSE,
                                  LAMBDA v : AtMost(200, v))
                \cup StringIssues(s, "policyUrl", "site.policyUrl", FALSE, IsUrl))
         \cup ObjectIssues(raw, "policies", "policies", TRUE, LAMBDA p :
                UNION {EnumIssues(p, f, "policies." \o f, TRUE, VALID_POLICY_VALUES)
                          : f \in Fields})
         \cup ObjectIssues(raw, "trainingPaths", "trainingPaths", FALSE, LAMBDA t :
                StringArrayIssues(t, "allow", "trainingPaths.allow")
                \cup StringArrayIssues(t, "deny", "trainingPaths.deny"))
         \cup ObjectIssues(raw, "licensing", "licensing", FALSE, LAMBDA l :
                StringIssues(l, "license", "licensing.license", FALSE,
                             LAMBDA v : AtMost(100, v))
                \cup StringIssues(l, "feeUrl", "licensing.feeUrl", FALSE, IsUrl))
         \cup ObjectIssues(raw, "agents", "agents", TRUE, LAMBDA as :
                UNION {IF as.v[name].t = "object"
                       THEN AgentPolicyIssues("agents." \o name, as.v[name])
                       ELSE {"agents." \o name} : name \in DOMAIN as.v})
         \cup ObjectIssues(raw, "content", "content", FALSE, LAMBDA c :
                EnumIssues(c, "attribution", "content.attribution", FALSE,
                           VALID_REQUIREMENT_LEVELS)
                \cup EnumIssues(c, "aiDisclosure", "content.aiDisclosure", FALSE,
                                VALID_REQUIREMENT_LEVELS))
         \cup ObjectIssues(raw, "compliance", "compliance", FALSE, LAMBDA c :
                EnumIssues(c, "audit", "compliance.audit", FALSE, VALID_REQUIREMENT_LEVELS)
                \cup StringIssues(c, "auditFormat", "compliance.auditFormat", FALSE,
                                  LAMBDA v : AtMost(100, v)))
         \cup ObjectIssues(raw, "metadata", "metadata", FALSE, LAMBDA m :
                UNION {StringIssues(m, k, "metadata." \o k, TRUE, IsText) : k \in DOMAIN m.v})

-----------------------------------------------------------------------------
(* generator-json and parser-json: generateJSON and parseJSON *)

\* the keys of `order` an object holds, in that order
KeysIn(order, o) == SelectSeq(order, LAMBDA k : k \in DOMAIN o)

\* one order of the keys of a record whose insertion order the model does not
\* keep; what JSON.parse reads back does not depend on it
Entries(o) == CHOOSE keys \in EntryOrders(o) : TRUE

\* an object of string members as a JavaScript value
StringsValue(o, keys) == JObject(keys, [k \in DOMAIN o |-> JString(o[k])])

AgentPolicyValue(a) ==
    JObject(KeysIn(<<"training", "scraping", "indexing", "caching", "rateLimit">>, a),
            [k \in DOMAIN a |->
                IF k = "rateLimit"
                THEN JObject(<<"requests", "window">>,
                             [requests |-> JNumber(a[k].requests),
                              window |-> JString(a[k].window)])
                ELSE JString(a[k])])

StringArrayValue(items) == JArray([i \in 1..Len(items) |-> JString(items[i])])

\* an AiTxtDocument as a JavaScript value, its keys in the order of the type
DocumentValue(d) ==
    JObject(KeysIn(<<"specVersion", "generatedAt", "site", "policies", "trainingPaths",
                     "licensing", "agents", "content", "compliance", "metadata">>, d),
        [k \in DOMAIN d |->
            IF k \in {"specVersion", "generatedAt"} THEN JString(d[k])
            ELSE IF k = "site"
            THEN StringsValue(d[k], KeysIn(<<"name", "url", "description", "contact",
                                             "policyUrl">>, d[k]))
            ELSE IF k = "policies"
            THEN StringsValue(d[k], <<"training", "scraping", "indexing", "caching">>)
            ELSE IF k = "trainingPaths"
            THEN JObject(<<"allow", "deny">>,
                         [allow |-> StringArrayValue(d[k].allow),
                          deny |-> StringArrayValue(d[k].deny)])
            ELSE IF k = "licensing" THEN StringsValue(d[k], KeysIn(<<"license", "feeUrl">>, d[k]))
            ELSE IF k = "agents"
            THEN JObject(Entries(d[k]), [name \in DOMAIN d[k] |-> AgentPolicyValue(d[k][name])])
            ELSE IF k = "content"
            THEN StringsValue(d[k], KeysIn(<<"attribution", "aiDisclosure">>, d[k]))
            ELSE IF k = "compliance"
            THEN StringsValue(d[k], KeysIn(<<"audit", "auditFormat">>, d[k]))
            ELSE StringsValue(d[k], Entries(d[k]))])

\* the members of an object the schema knows, without their types
KnownStrings(o, known) == [k \in DOMAIN o.v \cap known |-> o.v[k].v]

AgentPolicyData(a) ==
    [k \in DOMAIN a.v \cap (Fields \cup {"rateLimit"}) |->
        IF k = "rateLimit"
        THEN [requests |-> a.v[k].v.requests.v, window |-> a.v[k].v.window.v]
        ELSE a.v[k].v]

\* result.data of a successful safeParse: unknown keys are stripped
SchemaData(raw) ==
    [k \in DOMAIN raw.v \cap {"specVersion", "generatedAt", "site", "policies",
                              "trainingPaths", "licensing", "agents", "content",
                              "compliance", "metadata"} |->
        IF k \in {"specVersion", "generatedAt"} THEN raw.v[k].v
        ELSE IF k = "site"
        THEN KnownStrings(raw.v[k], {"name", "url", "description", "contact", "policyUrl"})
        ELSE IF k = "policies" THEN KnownStrings(raw.v[k], Fields)
        ELSE IF k = "trainingPaths"
        THEN [allow |-> [i \in 1..Len(raw.v[k].v.allow.v) |-> raw.v[k].v.allow.v[i].v],
              deny |-> [i \in 1..Len(raw.v[k].v.deny.v) |-> raw.v[k].v.deny.v[i].v]]
        ELSE IF k = "licensing" THEN KnownStrings(raw.v[k], {"license", "feeUrl"})
        ELSE IF k = "agents"
        THEN [name \in DOMAIN raw.v[k].v |-> AgentPolicyData(raw.v[k].v[name])]
        ELSE IF k = "content" THEN KnownStrings(raw.v[k], {"attribution", "aiDisclosure"})
        ELSE IF k = "compliance" THEN KnownStrings(raw.v[k], {"audit", "auditFormat"})
        ELSE KnownStrings(raw.v[k], DOMAIN raw.v[k].v)]

\* generateJSON returning the text of a document whatever the issues
generateJSON_unchecked(d) ==
    [threw |-> FALSE, value |-> "{}"]

\* generateJSON, lines 18-25: the text, or the Error it throws
generateJSON(d) ==
    LET raw == DocumentValue(d)
        issues == SchemaIssues(raw)
    IN  IF issues # {}
        THEN [threw |-> TRUE, issues |-> issues]
        ELSE [threw |-> FALSE, value |-> Stringify(DocumentValue(SchemaData(raw)), 0)]

\* the agents under lower-cased names, of two names that differ in case only
\* the earlier entry
normalizedAgents_firstWins(agents, names) ==
    LET lower(n) == IF n = "*" THEN "*" ELSE ToLowerCase(n)
    IN  [k \in {lower(names[i]) : i \in 1..Len(names)} |->
            agents[names[CHOOSE i \in 1..Len(names) :
                             /\ lower(names[i]) = k
                             /\ \A j \in 1..(i - 1) : lower(names[j]) # k]]]

\* lines 41-46 of parseJSON: the agents under lower-cased names, "*" kept; of
\* two names that differ in case only, the later entry stays
RECURSIVE normalizedAgents(_, _)
normalizedAgents(agents, names) ==
    IF names = <<>> THEN EmptyObj
    ELSE LET name == names[Len(names)]
         IN  Put(normalizedAgents(agents, SubSeq(names, 1, Len(names) - 1)),
                 IF name = "*" THEN "*" ELSE ToLowerCase(name),
                 agents[name])

MAX_INPUT_SIZE == 1048576

\* the error of an input over the size limit; the message names the length
TooLarge(input, unit, tail) ==
    [success |-> FALSE,
     errors |-> <<[message |-> "Input too large (" \o ToString(Len(input)) \o " " \o unit
                               \o "). Maximum is " \o ToString(MAX_INPUT_SIZE) \o tail]>>,
     warnings |-> <<>>]

\* parseJSON
parseJSON(input) ==
    LET parsed == JsonParse(input)
        raw == parsed.value
        issues == SchemaIssues(raw)
        data == SchemaData(raw)
    IN  IF Len(input) > MAX_INPUT_SIZE THEN TooLarge(input, "bytes", " bytes.")
        ELSE IF ~parsed.ok
        THEN [success |-> FALSE, errors |-> <<[message |-> "Invalid JSON"]>>,
              warnings |-> <<>>]
        ELSE IF issues # {}
        THEN [success |-> FALSE, errors |-> issues, warnings |-> <<>>]
        ELSE [success |-> TRUE,
              document |-> [data EXCEPT !.agents = normalizedAgents(@, raw.v.agents.keys)],
              errors |-> <<>>, warnings |-> <<>>]

-----------------------------------------------------------------------------
(* parse, generate and parse again: SpecRound *)

\* how many lines of the template an input takes, after the two site lines
MaxRoundLines == 3

\* the lines an input is drawn from, in this order
RoundTemplate ==
    << "Spec-Version: 1.1",
       "Generated-At: 2026-01-01",
       "Description: Testing roundtrip",
       "Contact:",
       "Training: conditional",
       "Training-Allow: /public/*",
       "Training-Allow: /docs/**",
       "Training-Deny: /premium/*",
       "Training-License: CC-BY-4.0",
       "Agent: *",
       "  Rate-Limit: 60/minute",
       "Agent: ClaudeBot",
       "  Training: allow",
       "Attribution: required",
       "Audit-Format: rer-artifact/0.1",
       "X-Custom: hello",
       "X-Note: a\tb" >>

\* the place in the template of the last line read, 0 after the site lines
TemplatePlace ==
    IF Len(lines) <= Len(SiteLines) THEN 0
    ELSE CHOOSE k \in 1..Len(RoundTemplate) : RoundTemplate[k] = lines[Len(lines)]

ParseRoundLine ==
    /\ result = Undefined
    /\ \E raw \in IF Len(lines) < Len(SiteLines)
                  THEN {SiteLines[Len(lines) + 1]}
                  ELSE IF Len(lines) < Len(SiteLines) + MaxRoundLines
                  THEN {RoundTemplate[k] : k \in (TemplatePlace + 1)..Len(RoundTemplate)}
                  ELSE {} :
          /\ lines' = Append(lines, raw)
          /\ ps' = ParseLoopBody(ps, Len(lines) + 1, raw)
    /\ UNCHANGED <<client, now, stored, heap, result, doc, call, ret>>

\* the head of a JSON document, up to its agents
JsonHead ==
    "{\"specVersion\": \"1.0\", \"site\": {\"name\": \"My \\\"Blog\\\"\", "
    \o "\"url\": \"https://myblog.com\"}, \"policies\": {\"training\": \"deny\", "
    \o "\"scraping\": \"allow\", \"indexing\": \"allow\", \"caching\": \"allow\"}, "
    \o "\"agents\": "

\* the agents of the JSON inputs
JsonAgents ==
    { "{}",
      "{\"*\": {}}",
      "{\"ClaudeBot\": {\"training\": \"allow\"}}",
      "{\"ClaudeBot\": {\"training\": \"allow\"}, \"claudebot\": {\"rateLimit\": {\"requests\": 60, \"window\": \"minute\"}}}",
      "{\"gptbot\": {\"training\": \"maybe\"}}" }

\* what follows the agents in the JSON inputs
JsonTails ==
    { "}",
      ", \"generatedAt\": \"2026-01-01T00:00:00Z\"}",
      ", \"trainingPaths\": {\"allow\": [\"/public/*\", \"/docs/**\"], \"deny\": []}}",
      ", \"metadata\": {\"X-Note\": \"a\\tb\", \"x-empty\": \"\"}, \"extra\": [1, true]}",
      ", \"content\": {\"attribution\": \"required\"}, \"licensing\": {\"license\": \"\"}}",
      ", \"generatedAt\": \"2026-01-01\"}",
      ", \"metadata\": " }

JsonInputs == {JsonHead \o agents \o tail : agents \in JsonAgents, tail \in JsonTails}

\* parseJSON(input) on a JSON input; doc keeps the input
ParseJSON ==
    /\ lines = <<>>
    /\ result = Undefined
    /\ doc = Undefined
    /\ \E input \in JsonInputs :
          /\ doc' = Some(input)
          /\ result' = Some(parseJSON(input))
    /\ UNCHANGED <<client, now, stored, heap, lines, ps, call, ret>>

\* generateJSON(result.document) after a successful parse or parseJSON
GenerateJSON ==
    /\ result # Undefined
    /\ Get(result).success
    /\ call = Undefined
    /\ call' = [op |-> "generateJSON", doc |-> Get(result).document]
    /\ ret' = generateJSON(Get(result).document)
    /\ UNCHANGED <<client, now, stored, heap, lines, ps, result, doc>>

\* parseJSON(json) on the text generateJSON returned
ParseJSONGenerated ==
    /\ Called("generateJSON")
    /\ ~ret.threw
    /\ call' = [op |-> "parseJSON", input |-> ret.value]
    /\ ret' = parseJSON(ret.value)
    /\ UNCHANGED <<client, now, stored, heap, lines, ps, result, doc>>

\* generate(result.document) after a successful parse of text
Generate ==
    /\ result # Undefined
    /\ Get(result).success
    /\ doc = Undefined
    /\ call = Undefined
    /\ LET d == Get(result).document
       IN  \E agentKeys \in EntryOrders(d.agents),
              metadataKeys \in EntryOrders(IF "metadata" \in DOMAIN d
                                           THEN d.metadata ELSE EmptyObj) :
              /\ call' = [op |-> "generate", doc |-> d]
              /\ ret' = generate(d, agentKeys, metadataKeys)
    /\ UNCHANGED <<client, now, stored, heap, lines, ps, result, doc>>

\* parse(text) on the text generate returned
ParseGenerated ==
    /\ Called("generate")
    /\ call' = [op |-> "parse", input |-> ret]
    /\ ret' = parse(Split(ret))
    /\ UNCHANGED <<client, now, stored, heap, lines, ps, result, doc>>

NextRound ==
    \/ ParseRoundLine \/ ParseReturn \/ Generate \/ ParseGenerated
    \/ ParseJSON \/ GenerateJSON \/ ParseJSONGenerated

SpecRound == Init /\ [][NextRound]_vars

-----------------------------------------------------------------------------
(* Properties of generate, checked under SpecRound *)

\* C14: text round trip.  For every Document d produced by a successful
\* parse, parse(generate(d)) succeeds and returns a Document equal to d:
\* specVersion, generatedAt, site, policies, trainingPaths with their order,
\* licensing, agents, content, compliance and metadata are all preserved.
C14_TextRoundTrip ==
    Called("parse") =>
        /\ ret.success
        /\ ret.document = Get(result).document

ToUpperChar(c) ==
    IF \E u \in DOMAIN LowerOf : LowerOf[u] = c
    THEN CHOOSE u \in DOMAIN LowerOf : LowerOf[u] = c
    ELSE c

Casings == {"upper", "lower", "mixed"}

\* s with its letters in the given casing; mixed alternates upper and lower
RECURSIVE Recase(_, _, _)
Recase(s, casing, k) ==
    IF s = "" THEN ""
    ELSE LET c == CharAt(s, 1)
             d == CASE casing = "upper" -> ToUpperChar(ToLowerChar(c))
                    [] casing = "lower" -> ToLowerChar(c)
                    [] OTHER -> IF k % 2 = 1 THEN ToUpperChar(ToLowerChar(c))
                                ELSE ToLowerChar(c)
         IN  d \o Recase(SubSeq(s, 2, Len(s)), casing, k + 1)

\* the line with the letters of its key in the given casing; the key is what
\* precedes the first colon of a line that is neither empty nor a comment
RecaseKey(raw, casing) ==
    LET trimmed == Trim(raw)
        colonIdx == IndexOf(raw, ":")
    IN  IF trimmed = "" \/ StartsWith(trimmed, "#") \/ colonIdx = -1
        THEN raw
        ELSE Recase(Slice(raw, 0, colonIdx), casing, 1) \o SliceFrom(raw, colonIdx)

MaxCaseLines == 2

\* the lines that follow the two site lines in the inputs of SpecCase
CaseLinePool ==
    { "Training: allow",
      "training-license: MIT",
      "ATTRIBUTION: required",
      "Agent: ClaudeBot",
      "  Training: allow",
      "  rate-limit: 60/minute",
      "  Bogus: 1",
      "X-Custom: hello",
      "x-custom: bye",
      "# Generated: 2026",
      "oops" }

CaseInputs == { SiteLines \o tl : tl \in SeqsUpTo(CaseLinePool, MaxCaseLines) }

\* parse is called on an input and on the same input with the key of one of
\* its lines in another casing
ParseRecased ==
    /\ lines = <<>>
    /\ call = Undefined
    /\ \E ls \in CaseInputs, casing \in Casings :
          \E i \in 1..Len(ls) :
             LET recased == [ls EXCEPT ![i] = RecaseKey(ls[i], casing)]
             IN  /\ call' = [op |-> "parse", input |-> ls, line |-> i,
                             casing |-> casing, recased |-> recased]
                 /\ ret' = [original |-> parse(ls), recased |-> parse(recased)]
    /\ UNCHANGED <<client, now, stored, heap, lines, ps, result, doc>>

NextCase == ParseRecased

SpecCase == Init /\ [][NextCase]_vars

\* the document of a parse result, or undefined
DocumentOf(r) == IF "document" \in DOMAIN r THEN Some(r.document) ELSE Undefined

RecasedCall == Called("parse") /\ "recased" \in DOMAIN call

\* C16 as stated: for every input text, changing the letter case of the key of
\* any line, top-level or inside an Agent block, to upper, lower or mixed case
\* leaves the Document returned by parse unchanged.
C16_AnyKeyAnyCase ==
    RecasedCall => DocumentOf(ret.recased) = DocumentOf(ret.original)

\* the field names of the top-level switch
TopLevelKeys ==
    { "spec-version", "generated-at", "site-name", "site-url", "description",
      "site-description", "contact", "site-contact", "policy-url", "training",
      "scraping", "indexing", "caching", "training-allow", "training-deny",
      "training-license", "training-fee", "attribution", "ai-disclosure",
      "audit", "audit-format", "ai-json", "agents-txt", "agent" }

\* line i of the input is handled at top level and its key is none of the
\* field names: the parser keeps it as a metadata entry under the key as
\* written
StoredAsMetadata(ls, i) ==
    LET raw == ls[i]
        trimmed == Trim(raw)
        colonIdx == IndexOf(trimmed, ":")
        key == Trim(Slice(trimmed, 0, colonIdx))
    IN  /\ trimmed # "" /\ ~StartsWith(trimmed, "#")
        /\ ~isIndented(raw)
        /\ colonIdx # -1
        /\ ToLowerCase(key) \notin TopLevelKeys

\* C16: changing the letter case of the key of a line leaves the Document
\* returned by parse unchanged for every line but one kept as a metadata
\* entry, that is a top-level line whose key is none of the field names; the
\* key of such a line is stored as written, and the entry of the changed line
\* is stored under the changed key.
C16_FieldKeysAnyCase ==
    RecasedCall =>
        /\ ~StoredAsMetadata(call.input, call.line) =>
              DocumentOf(ret.recased) = DocumentOf(ret.original)
        /\ StoredAsMetadata(call.input, call.line) =>
              LET raw == call.recased[call.line]
                  key == Trim(Slice(raw, 0, IndexOf(raw, ":")))
              IN  /\ ret.recased.success
                  /\ key \in DOMAIN ret.recased.document.metadata

\* an upper-case agent-block key and an upper-case top-level key are read as
\* the field they name
C16_Witness ==
    /\ RecasedCall
    /\ call.casing = "upper"
    /\ call.input[call.line] = "  rate-limit: 60/minute"
    /\ call.recased[call.line] = "  RATE-LIMIT: 60/minute"
    /\ ret.original.success
    /\ "claudebot" \in DOMAIN ret.original.document.agents
    /\ "rateLimit" \in DOMAIN ret.original.document.agents["claudebot"]
    /\ ret.recased.document = ret.original.document


-----------------------------------------------------------------------------
(* the size limit of parse and parseJSON: SpecSize *)

\* parse(input): the size test, then the lines of the input
parseInput_atLimit(input) ==
    IF Len(input) >= MAX_INPUT_SIZE THEN TooLarge(input, "characters", ".")
    ELSE parse(Split(input))

parseInput(input) ==
    IF Len(input) > MAX_INPUT_SIZE THEN TooLarge(input, "characters", ".")
    ELSE parse(Split(input))

\* "a".repeat(MAX_INPUT_SIZE)
AtLimit == Twice(Twice(Twice(Twice(Twice(Twice(Twice(Twice(Twice(Times2048("a"))))))))))

ValidText == Join(SiteLines, "\n") \o "\n"
ValidJson == JsonHead \o "{}}"

\* inputs of MAX_INPUT_SIZE characters and of more, of several contents
LargeInputs ==
    { AtLimit,
      ValidText \o "X: " \o SubSeq(AtLimit, 1, MAX_INPUT_SIZE - Len(ValidText) - 3),
      AtLimit \o "a",
      "{" \o AtLimit,
      ValidText \o "X: " \o AtLimit,
      ValidText \o "#" \o SubSeq(AtLimit, 1, MAX_INPUT_SIZE - Len(ValidText)),
      ValidJson \o AtLimit,
      SubSeq(ValidJson, 1, Len(ValidJson) - 1) \o ", \"metadata\": {\"data\": \""
          \o AtLimit \o "\"}}" }

SizeInputs == { Join(ls, "\n") : ls \in CaseInputs } \cup JsonInputs \cup LargeInputs

\* parse is called on a text
ParseInput ==
    /\ lines = <<>>
    /\ call = Undefined
    /\ \E input \in SizeInputs :
          /\ call' = [op |-> "parse", input |-> input]
          /\ ret' = parseInput(input)
    /\ UNCHANGED <<client, now, stored, heap, lines, ps, result, doc>>

\* parseJSON is called on a text
ParseJSONInput ==
    /\ lines = <<>>
    /\ call = Undefined
    /\ \E input \in SizeInputs :
          /\ call' = [op |-> "parseJSON", input |-> input]
          /\ ret' = parseJSON(input)
    /\ UNCHANGED <<client, now, stored, heap, lines, ps, result, doc>>

NextSize == ParseInput \/ ParseJSONInput

SpecSize == Init /\ [][NextSize]_vars

\* the result is the rejection of an input for its size
SizeRejection(r) ==
    /\ ~r.success
    /\ "document" \notin DOMAIN r
    /\ r.warnings = <<>>
    /\ Len(r.errors) = 1
    /\ DOMAIN r.errors[1] = {"message"}
    /\ Contains(r.errors[1].message, "too large")

\* the result holds no error about the size of the input
NoSizeError(op, input, r) ==
    \/ r.success
    \/ IF op = "parseJSON" /\ JsonParse(input).ok
       THEN r.errors = SchemaIssues(JsonParse(input).value)
       ELSE \A k \in 1..Len(r.errors) : ~Contains(r.errors[k].message, "too large")

\* C17: parse and parseJSON each return success=false with exactly one "too
\* large" error, no document and no warnings for every input longer than
\* 1,048,576 characters, whatever its content (the result depends on the
\* length alone, nothing of the input is decoded); no input of at most that
\* length is rejected for its size.
C17_SizeLimit ==
    (Called("parse") \/ Called("parseJSON")) =>
        IF Len(call.input) > MAX_INPUT_SIZE
        THEN /\ SizeRejection(ret)
             /\ \A other \in LargeInputs :
                   Len(other) = Len(call.input) =>
                       ret = IF call.op = "parse" THEN parseInput(other)
                             ELSE parseJSON(other)
        ELSE NoSizeError(call.op, call.input, ret)

\* a valid text with one character more than the limit is rejected by parse,
\* with the same result as a text of that length that is no document
C17_Witness ==
    /\ Called("parse")
    /\ Len(call.input) = MAX_INPUT_SIZE + 1
    /\ StartsWith(call.input, ValidText)
    /\ SizeRejection(ret)
    /\ \E other \in LargeInputs : other # call.input /\ Len(other) = Len(call.input)


-----------------------------------------------------------------------------
(* resolve and the content object it returns: SpecShared *)

\* An object-valued field holds a reference [ref |-> a] to heap[a]; an
\* assignment of such a field copies the reference, not the object.
Ref(a) == [ref |-> a]
Deref(r) == heap[r.ref]

MaxResolves == 2

\* the documents of SpecShared, without their content
SharedDocs ==
    { [specVersion |-> "1.0",
       site |-> [name |-> "Test", url |-> "https://test.com"],
       policies |-> [training |-> "deny", scraping |-> "allow",
                     indexing |-> "allow", caching |-> "allow"],
       agents |-> ags] :
      ags \in { EmptyObj, [claudebot |-> [training |-> "allow"]] } }

\* a document whose content, when it has one, is the object at address 1;
\* `ret` lists the policies returned so far
InitShared ==
    /\ lines = <<>>
    /\ ps = ParseStart
    /\ result = Undefined
    /\ call = Undefined
    /\ ret = <<>>
    /\ ClientIdle
    /\ \E d \in SharedDocs, co \in ContentPool :
          IF IsDefined(co)
          THEN heap = <<Get(co)>> /\ doc = Put(d, "content", Ref(1))
          ELSE heap = <<>> /\ doc = d

\* resolve(doc, agentName) returns one more policy
ResolveShared ==
    /\ Len(ret) < MaxResolves
    /\ \E agentName \in AgentNames :
          /\ call' = [op |-> "resolve", agentName |-> agentName]
          /\ ret' = Append(ret, resolve(doc, agentName))
    /\ UNCHANGED <<lines, ps, result, doc, heap, client, now, stored>>

ContentFields == {"attribution", "aiDisclosure"}

\* the caller assigns a field of the content of a policy it was returned:
\* policy.content.field = level
SetContent ==
    /\ \E k \in 1..Len(ret), field \in ContentFields, level \in VALID_REQUIREMENT_LEVELS :
          /\ "content" \in DOMAIN ret[k]
          /\ heap' = [heap EXCEPT ![ret[k].content.ref] = Put(@, field, level)]
          /\ call' = [op |-> "setContent", policy |-> k, before |-> heap]
    /\ UNCHANGED <<lines, ps, result, doc, ret, client, now, stored>>

NextShared == ResolveShared \/ SetContent

SpecShared == InitShared /\ [][NextShared]_vars

\* the policy returned last has content deep-equal to the document's, or
\* none when the document has none
ContentDeepEqual ==
    Called("resolve") /\ ret # <<>> =>
        LET policy == ret[Len(ret)]
        IN  IF "content" \in DOMAIN doc
            THEN "content" \in DOMAIN policy /\ Deref(policy.content) = Deref(doc.content)
            ELSE "content" \notin DOMAIN policy

\* C18 as stated: resolve returns content deep-equal to doc.content when the
\* document has content and omits it otherwise, and the returned content is a
\* separate value: changing the content of a returned ResolvedPolicy never
\* changes doc.content nor the content returned by another resolve call.
C18_ContentIsSeparate ==
    /\ ContentDeepEqual
    /\ Called("setContent") =>
          /\ "content" \in DOMAIN doc =>
                Deref(doc.content) = call.before[doc.content.ref]
          /\ \A j \in 1..Len(ret) :
                j # call.policy /\ "content" \in DOMAIN ret[j] =>
                    Deref(ret[j].content) = call.before[ret[j].content.ref]


-----------------------------------------------------------------------------
(* sanitizeValue on strings of any code units: SpecSanitize *)

MaxUnits == 3

\* CR, LF, tab, space, "a", DEL, U+0085, U+00A0, U+200B, U+202E, U+FEFF
UnitPool == {13, 10, 9, 32, 97, 127, 133, 160, 8203, 8238, 65279}

\* "a".repeat(n) as code units
Repeated(n) == [k \in 1..n |-> 97]

\* the values handed to sanitizeValue, as sequences of code units
UnitValues ==
    SeqsUpTo(UnitPool, MaxUnits)
        \cup { Repeated(DefaultMaxLength), Repeated(DefaultMaxLength + 1),
               <<10>> \o Repeated(DefaultMaxLength) \o <<8203>> }

\* the maxLength arguments; the default stands for a call without one
MaxLengths == {DefaultMaxLength, 0, 1, 2, -1}

\* sanitizeValue(value, maxLength) is called on a string
SanitizeValue ==
    /\ call = Undefined
    /\ \E value \in UnitValues, maxLength \in MaxLengths :
          /\ call' = [op |-> "sanitizeValue", value |-> value, maxLength |-> maxLength]
          /\ ret' = sanitizeUnits(value, maxLength)
    /\ UNCHANGED <<lines, ps, result, doc, heap, client, now, stored>>

NextSanitize == SanitizeValue

SpecSanitize == Init /\ [][NextSanitize]_vars

LineBreaks == {13, 10}
AsciiControls == 0..31
C1Controls == 128..159
BidiOverrides == 8234..8238
ZeroWidths == (8203..8207) \cup {65279}

Units(s) == { s[k] : k \in 1..Len(s) }
CountIn(s, S) == Cardinality({ k \in 1..Len(s) : s[k] \in S })

\* the result holds none of the code units of S
Free(S) == Called("sanitizeValue") => Units(ret) \cap S = {}

\* the result is no longer than maxLength
Bounded == Called("sanitizeValue") => Len(ret) <= call.maxLength

\* each CR and each LF is replaced by a space, not deleted: in a value that
\* begins and ends with a letter and fits maxLength, the spaces of the result
\* are as many as the spaces, CRs and LFs of the value
BreaksBecomeSpaces ==
    Called("sanitizeValue") =>
        LET value == call.value
        IN  /\ value # <<>>
            /\ value[1] = 97 /\ value[Len(value)] = 97
            /\ Len(value) <= call.maxLength
            => CountIn(ret, {32}) = CountIn(value, {32} \cup LineBreaks)

\* C19 as stated: for every input value and maxLength, sanitizeValue returns a
\* string that contains no CR or LF, no ASCII control character (U+0000 to
\* U+001F), no C1 control character (U+0080 to U+009F), no
\* bidirectional-override character (U+202A to U+202E) and no zero-width
\* character (U+200B to U+200F, U+FEFF), and whose length is at most maxLength
\* (500 by default); each CR and each LF is replaced by a space, not deleted.
C19_Sanitized ==
    /\ Free(LineBreaks)
    /\ Free(AsciiControls)
    /\ Free(C1Controls)
    /\ Free(BidiOverrides)
    /\ Free(ZeroWidths)
    /\ Bounded
    /\ BreaksBecomeSpaces


-----------------------------------------------------------------------------
(* The end of the text generate returns, checked under SpecRound *)

\* the document has at least one metadata entry
HasMetadataEntries(d) == "metadata" \in DOMAIN d /\ DOMAIN d.metadata # {}

EndsWithLineFeed(text) == Len(text) >= 1 /\ CharAt(text, Len(text)) = "\n"
BlankLastLine(text) == Len(text) >= 2 /\ CharAt(text, Len(text) - 1) = "\n"

\* C20 as stated: for every Document, the text returned by generate ends with
\* exactly one newline: its last character is a line feed and the character
\* before it is not a line feed.
C20_ExactlyOneNewline ==
    Called("generate") => EndsWithLineFeed(ret) /\ ~BlankLastLine(ret)

\* C20: for every Document, the last character of the text returned by
\* generate is a line feed; the character before it is a line feed too when
\* the document has no metadata entry (the text ends with an empty line), and
\* is no line feed when it has one (the text ends with the last metadata line).
C20_EndsWithNewline ==
    Called("generate") =>
        /\ EndsWithLineFeed(ret)
        /\ BlankLastLine(ret) <=> ~HasMetadataEntries(call.doc)

\* a document with a metadata entry, whose text ends with that entry's line
C20_Witness ==
    /\ Called("generate")
    /\ HasMetadataEntries(call.doc)
    /\ "X-Custom" \in DOMAIN call.doc.metadata
    /\ EndsWithLineFeed(ret)
    /\ ~BlankLastLine(ret)


-----------------------------------------------------------------------------
(* parseJSON on valid, invalid and ill-formed JSON: SpecJson *)

\* agents whose keys differ in letter case only, or are written twice
JsonCaseAgents ==
    { "{\"claudebot\": {\"training\": \"deny\"}, \"ClaudeBot\": {\"training\": \"allow\"}}",
      "{\"ClaudeBot\": {\"training\": \"allow\"}, \"claudebot\": {\"training\": \"deny\"}, "
          \o "\"CLAUDEBOT\": {\"scraping\": \"deny\"}}",
      "{\"ClaudeBot\": {\"training\": \"allow\"}, \"claudebot\": {\"training\": \"deny\"}, "
          \o "\"ClaudeBot\": {\"scraping\": \"deny\"}}",
      "{\"*\": {\"training\": \"deny\"}, \"GPTBot\": {\"rateLimit\": {\"requests\": 0, "
          \o "\"window\": \"week\"}}}" }

\* documents that break the schema at their head
JsonBadHeads ==
    { "[1, 2, 3]",
      "\"text\"",
      "{}",
      "{\"specVersion\": \"1\", \"site\": {\"name\": \"\", \"url\": \"myblog\"}, "
          \o "\"policies\": {\"training\": \"deny\"}, \"agents\": {}}",
      "{\"specVersion\": 1, \"site\": [], \"policies\": {\"training\": \"deny\", "
          \o "\"scraping\": \"allow\", \"indexing\": \"allow\", \"caching\": \"never\"}, "
          \o "\"agents\": {\"x\": 1}}" }

MaxCut == 40

\* the texts handed to parseJSON: documents, documents with colliding agent
\* keys, documents cut short and documents that break the schema
JsonTexts ==
    JsonInputs
        \cup { JsonHead \o agents \o tail : agents \in JsonCaseAgents, tail \in JsonTails }
        \cup { SubSeq(ValidJson, 1, Len(ValidJson) - k) : k \in 0..MaxCut }
        \cup JsonBadHeads

\* parseJSON is called on a text
ParseJSONText ==
    /\ lines = <<>>
    /\ call = Undefined
    /\ \E input \in JsonTexts :
          /\ call' = [op |-> "parseJSON", input |-> input]
          /\ ret' = parseJSON(input)
    /\ UNCHANGED <<lines, ps, result, doc, heap, client, now, stored>>

NextJson == ParseJSONText

SpecJson == Init /\ [][NextJson]_vars

\* the value JSON.parse decodes from the input of the call
Decoded == JsonParse(call.input)

\* the document is returned for a schema-valid value alone; a violation gives
\* no document and one error for each issue, a syntax error a single error
AllOrNothing ==
    Called("parseJSON") =>
        LET decoded == Decoded
            issues == IF decoded.ok THEN SchemaIssues(decoded.value) ELSE {}
        IN  /\ "document" \in DOMAIN ret => ret.success /\ decoded.ok /\ issues = {}
            /\ decoded.ok /\ issues # {} =>
                  /\ ~ret.success
                  /\ "document" \notin DOMAIN ret
                  /\ Cardinality(ret.errors) = Cardinality(issues)
            /\ ~decoded.ok =>
                  ~ret.success /\ "document" \notin DOMAIN ret /\ Len(ret.errors) = 1
            /\ decoded.ok /\ issues = {} => ret.success /\ "document" \in DOMAIN ret

\* on success every agent key but "*" is lower case
LowercaseKeys ==
    Called("parseJSON") /\ ret.success =>
        \A k \in DOMAIN ret.document.agents : k = "*" \/ k = ToLowerCase(k)

\* where the member whose key is `lname` when case is ignored is written last
\* in the text, 0 when nowhere
LastPlace(text, lname) ==
    LET quoted == "\"" \o lname \o "\":"
        places == { k \in 1..(Len(text) - Len(quoted) + 1) :
                      ToLowerCase(SubSeq(text, k, k + Len(quoted) - 1)) = quoted }
    IN  IF places = {} THEN 0 ELSE CHOOSE k \in places : \A j \in places : j <= k

\* the agent entry written last in the text under a key that is `lname` when
\* case is ignored
LastEntryInInput(text, lname) ==
    LET k == LastPlace(text, lname)
    IN  AgentPolicyData(JsonValue(SubSeq(text, k + Len(lname) + 3, Len(text))).value)

\* C21 as stated: parseJSON returns a document only when the decoded JSON
\* satisfies the whole schema; any violation gives success=false, no document
\* and one error per violation, and a JSON syntax error gives a single error.
\* On success every agent key other than "*" is lowercase, and when several
\* keys differ only in letter case the entry that comes last in the input is
\* the one kept.
C21_LastInInputKept ==
    /\ AllOrNothing
    /\ LowercaseKeys
    /\ Called("parseJSON") /\ ret.success =>
          \A k \in DOMAIN ret.document.agents :
              ret.document.agents[k] = LastEntryInInput(call.input, k)

\* the keys of the decoded agents object that are `lname` when case is ignored,
\* as places in the order of the object's keys
PlacesOf(keys, lname) ==
    { i \in 1..Len(keys) : (IF keys[i] = "*" THEN "*" ELSE ToLowerCase(keys[i])) = lname }

\* C21: parseJSON returns a document only when the decoded JSON satisfies the
\* whole schema; any violation gives success=false, no document and one error
\* per violation, and a JSON syntax error gives a single error.  On success
\* every agent key other than "*" is lowercase, and when several keys of the
\* decoded agents object differ only in letter case the entry kept is the one
\* of the key that comes last in the order of the object's keys, which is the
\* order in which the keys first appear in the input; a key written twice
\* keeps its first place and holds its last value.
C21_LastKeyKept ==
    /\ AllOrNothing
    /\ LowercaseKeys
    /\ Called("parseJSON") /\ ret.success =>
          LET agents == Decoded.value.v.agents
          IN  /\ DOMAIN ret.document.agents =
                    { IF n = "*" THEN "*" ELSE ToLowerCase(n) : n \in DOMAIN agents.v }
              /\ \A k \in DOMAIN ret.document.agents :
                    LET places == PlacesOf(agents.keys, k)
                        last == CHOOSE i \in places : \A j \in places : j <= i
                    IN  ret.document.agents[k] = AgentPolicyData(agents.v[agents.keys[last]])

\* three keys that differ in case only: the entry of the last one is kept
C21_Witness ==
    /\ Called("parseJSON")
    /\ ret.success
    /\ Decoded.ok
    /\ Len(Decoded.value.v.agents.keys) = 3
    /\ DOMAIN ret.document.agents = {"claudebot"}
    /\ ret.document.agents["claudebot"] = [scraping |-> "deny"]


-----------------------------------------------------------------------------
(* generateJSON on valid and invalid documents, and parseJSON on what it
   returns: SpecGen *)

\* a document that satisfies the schema
GenBase == parse(SiteLines \o <<"Agent: ClaudeBot", "  Rate-Limit: 60/minute">>).document

\* documents a caller builds that break the schema, and a valid one whose
\* metadata value is MAX_INPUT_SIZE characters long
BuiltDocs ==
    { [GenBase EXCEPT !.policies.training = "maybe"],
      [GenBase EXCEPT !.site.name = ""],
      [GenBase EXCEPT !.site.url = "myblog"],
      [GenBase EXCEPT !.specVersion = "1"],
      [GenBase EXCEPT !.agents.claudebot.rateLimit.requests = 0],
      [GenBase EXCEPT !.agents.claudebot.rateLimit.window = "week"],
      [GenBase EXCEPT !.policies.training = "maybe", !.site.url = ""],
      Put(GenBase, "generatedAt", "yesterday"),
      Put(GenBase, "content", [attribution |-> "always"]),
      Put(GenBase, "generatedAt", "2026-01-01T00:00:00Z"),
      Put(GenBase, "metadata", [data |-> AtLimit]) }

\* the documents handed to generateJSON: the ones parse returns and the built
GenDocs == { parse(ls).document : ls \in CaseInputs } \cup BuiltDocs

InitGen ==
    /\ ParserIdle
    /\ heap = <<>>
    /\ ClientIdle
    /\ doc \in { Some(d) : d \in GenDocs }
    /\ call = Undefined
    /\ ret = Undefined

\* generateJSON(doc) returns or throws
GenerateJSONDoc ==
    /\ call = Undefined
    /\ call' = [op |-> "generateJSON"]
    /\ ret' = generateJSON(Get(doc))
    /\ UNCHANGED <<lines, ps, result, doc, heap, client, now, stored>>

\* parseJSON is called on the string generateJSON returned
ParseJSONReturned ==
    /\ Called("generateJSON")
    /\ ~ret.threw
    /\ call' = [op |-> "parseJSON", input |-> ret.value]
    /\ ret' = parseJSON(ret.value)
    /\ UNCHANGED <<lines, ps, result, doc, heap, client, now, stored>>

NextGen == GenerateJSONDoc \/ ParseJSONReturned

SpecGen == InitGen /\ [][NextGen]_vars

\* generateJSON returns a string for a document that satisfies the schema of
\* parseJSON and throws for one that does not
ThrowsOnInvalid ==
    Called("generateJSON") =>
        (ret.threw <=> SchemaIssues(DocumentValue(Get(doc))) # {})

\* C22 as stated: generateJSON(doc) returns a string only for a doc that
\* satisfies the schema that parseJSON enforces and throws for every doc that
\* violates it; hence every string it returns is accepted by parseJSON.
C22_EveryStringAccepted ==
    /\ ThrowsOnInvalid
    /\ Called("parseJSON") => ret.success

\* C22: generateJSON(doc) returns a string only for a doc that satisfies the
\* schema that parseJSON enforces and throws for every doc that violates it;
\* parseJSON accepts a string it returns when the string has at most
\* 1,048,576 characters and rejects a longer one as too large.
C22_StringAcceptedUpToLimit ==
    /\ ThrowsOnInvalid
    /\ Called("parseJSON") =>
          IF Len(call.input) <= MAX_INPUT_SIZE
          THEN ret.success
          ELSE SizeRejection(ret)

\* a document that breaks the schema makes generateJSON throw
C22_Witness ==
    /\ Called("generateJSON")
    /\ Get(doc).policies.training = "maybe"
    /\ ret.threw


-----------------------------------------------------------------------------
(* validator: validate, and SpecValidate *)

Diagnostic(path, code) == [path |-> path, code |-> code]

\* lines 56-74: the checks of the agent policies.  Errors and warnings are
\* kept as sets of diagnostics (path and code): their order is not modelled.
AgentErrors(d) ==
    UNION { { Diagnostic("agents." \o name \o "." \o f, "INVALID_POLICY_VALUE") :
                f \in { g \in Fields : g \in DOMAIN d.agents[name]
                                       /\ d.agents[name][g] \notin VALID_POLICY_VALUES } } :
            name \in DOMAIN d.agents }

AgentWarnings(d) ==
    UNION { { Diagnostic("agents." \o name \o "." \o f, "AGENT_CONDITIONAL_POLICY") :
                f \in { g \in Fields :
                          g \in DOMAIN d.agents[name]
                          /\ d.agents[name][g] = "conditional" } } :
            name \in DOMAIN d.agents }

\* lines 25-53: the warnings about the site-wide fields
SiteWarnings(d) ==
    (IF Field(d.policies, "training") = Some("conditional")
        /\ ("trainingPaths" \notin DOMAIN d
            \/ (Len(d.trainingPaths.allow) = 0 /\ Len(d.trainingPaths.deny) = 0))
     THEN {Diagnostic("policies.training", "MISSING_TRAINING_PATHS")} ELSE {})
    \cup (IF Field(d.policies, "training") = Some("allow")
             /\ ~("licensing" \in DOMAIN d /\ Truthy(Field(d.licensing, "license")))
          THEN {Diagnostic("licensing.license", "MISSING_LICENSE")} ELSE {})
    \cup (IF Truthy(Field(d.site, "url")) /\ ~StartsWith(d.site.url, "https://")
          THEN {Diagnostic("site.url", "INSECURE_URL")} ELSE {})

\* validate, lines 9-82.  Reading doc.policies.training, doc.site.url or the
\* entries of doc.agents of a document without policies, site or agents
\* throws a TypeError.
validate(d) ==
    IF {"policies", "site", "agents"} \ DOMAIN d # {}
    THEN [threw |-> TRUE]
    ELSE LET errors == { Diagnostic(path, "SCHEMA_VIOLATION") :
                           path \in SchemaIssues(DocumentValue(d)) } \cup AgentErrors(d)
         IN  [threw |-> FALSE, valid |-> errors = {}, errors |-> errors,
              warnings |-> SiteWarnings(d) \cup AgentWarnings(d)]

\* the site-wide policies of the documents handed to validate
ValidatePolicies ==
    [Fields -> VALID_POLICY_VALUES] \cup { [f \in Fields |-> "maybe"] }

ValidateAgents ==
    { EmptyObj,
      [claudebot |-> [training |-> "conditional"]],
      [claudebot |-> [scraping |-> "maybe"]] }

\* documents of the type, documents that break the schema and documents that
\* lack a required member
ValidateDocs ==
    { PutOpt([specVersion |-> "1.0",
              site |-> [name |-> "Test", url |-> url],
              policies |-> pol, agents |-> ags], "trainingPaths", tp) :
        pol \in ValidatePolicies, ags \in ValidateAgents,
        url \in {"https://test.com", "http://test.com"},
        tp \in {Undefined, Some([allow |-> <<"/blog/*">>, deny |-> <<>>])} }
    \cup { [specVersion |-> "1.0", site |-> [name |-> "Test", url |-> "https://test.com"],
            agents |-> EmptyObj],
           [specVersion |-> "1.0", agents |-> EmptyObj,
            policies |-> [f \in Fields |-> "allow"]],
           [specVersion |-> "1.0", site |-> [name |-> "Test", url |-> "https://test.com"],
            policies |-> [f \in Fields |-> "allow"]] }

InitValidate ==
    /\ ParserIdle
    /\ heap = <<>>
    /\ ClientIdle
    /\ doc \in { Some(d) : d \in ValidateDocs }
    /\ call = Undefined
    /\ ret = Undefined

\* validate(doc) returns or throws
Validate ==
    /\ call = Undefined
    /\ call' = [op |-> "validate"]
    /\ ret' = validate(Get(doc))
    /\ UNCHANGED <<lines, ps, result, doc, heap, client, now, stored>>

NextValidate == Validate

SpecValidate == InitValidate /\ [][NextValidate]_vars

\* the errors and the warnings validate returned
Diagnostics == ret.errors \cup ret.warnings

NeverThrows == Called("validate") => ~ret.threw

ValidIffNoErrors == Called("validate") /\ ~ret.threw => (ret.valid <=> ret.errors = {})

\* a conditional scraping, indexing or caching policy is reported
ConditionalReported ==
    Called("validate") /\ ~ret.threw =>
        \A f \in Fields \ {"training"} :
            Field(Get(doc).policies, f) = Some("conditional") =>
                Diagnostic("policies." \o f, "INVALID_CONDITIONAL_POLICY") \in Diagnostics

TrainingNotReported ==
    Called("validate") /\ ~ret.threw =>
        Diagnostic("policies.training", "INVALID_CONDITIONAL_POLICY") \notin Diagnostics

\* C23: validate(doc) reports a diagnostic with code INVALID_CONDITIONAL_POLICY
\* and path policies.<field> whenever the site-wide scraping, indexing or
\* caching policy is conditional, and never reports that code for the
\* training field; validate never throws and valid is true exactly when its
\* errors list is empty.
C23_ConditionalFlagged ==
    /\ NeverThrows
    /\ ValidIffNoErrors
    /\ ConditionalReported
    /\ TrainingNotReported


-----------------------------------------------------------------------------
(* client: AiTxtClient, its cache and its fetches *)

WELL_KNOWN_TXT == "/.well-known/ai.txt"
WELL_KNOWN_JSON == "/.well-known/ai.json"

\* baseUrl.replace(/\/+$/, "")
RECURSIVE StripTrailingSlashes(_)
StripTrailingSlashes(s) ==
    IF Len(s) > 0 /\ CharAt(s, Len(s)) = "/"
    THEN StripTrailingSlashes(SubSeq(s, 1, Len(s) - 1))
    ELSE s

\* the test discover, discoverJSON and fetchAndParse make of a URL
AcceptedUrl_httpsOnly(url) == StartsWith(url, "https://")

AcceptedUrl(url) == StartsWith(url, "https://") \/ StartsWith(url, "http://localhost")

HttpsOnly ==
    [success |-> FALSE,
     errors |-> <<[message |-> "Only HTTPS URLs are supported (per spec security requirements)"]>>,
     warnings |-> <<>>]

NotFound(what, normalized) ==
    [success |-> FALSE,
     errors |-> <<[message |-> "No " \o what \o " found at " \o normalized]>>,
     warnings |-> <<>>]

\* new AiTxtClient({cacheTtl, maxCacheSize}).  The cache is a Map: its
\* entries in insertion order, each with its key.
NewClient(cacheTtl, maxCacheSize) ==
    [cacheTtl |-> cacheTtl, maxCacheSize |-> maxCacheSize, cache |-> <<>>]

\* cache.has(key), cache.get(key)
CacheHas(cache, key) == \E k \in 1..Len(cache) : cache[k].key = key

CacheGet(cache, key) ==
    IF CacheHas(cache, key)
    THEN Some(cache[CHOOSE k \in 1..Len(cache) : cache[k].key = key])
    ELSE Undefined

\* cache.set(key, entry): a key already present keeps its place
CacheSet(cache, entry) ==
    IF CacheHas(cache, entry.key)
    THEN [k \in 1..Len(cache) |-> IF cache[k].key = entry.key THEN entry ELSE cache[k]]
    ELSE Append(cache, entry)

\* getCached, lines 145-157
getCached_keepsExpired(c, t, key) ==
    LET entry == CacheGet(c.cache, key)
    IN  IF c.cacheTtl <= 0 THEN Undefined
        ELSE IF entry = Undefined THEN Undefined
        ELSE Some(Get(entry).result)

getCached_disabled(c, t, key) == Undefined

getCached(c, t, key) ==
    LET entry == CacheGet(c.cache, key)
    IN  IF c.cacheTtl <= 0 THEN Undefined
        ELSE IF entry = Undefined THEN Undefined
        ELSE IF t < Get(entry).expiresAt THEN Some(Get(entry).result)
        ELSE Undefined

\* setCache, lines 159-173: the client after it
setCache_noEviction(c, t, key, res, etag) ==
    IF c.cacheTtl <= 0 THEN c
    ELSE [c EXCEPT !.cache =
            CacheSet(@, [key |-> key, result |-> res, etag |-> etag,
                         expiresAt |-> t + c.cacheTtl])]

setCache(c, t, key, res, etag) ==
    IF c.cacheTtl <= 0 THEN c
    ELSE LET kept == IF Len(c.cache) >= c.maxCacheSize /\ ~CacheHas(c.cache, key)
                        /\ Len(c.cache) > 0
                     THEN Tail(c.cache) ELSE c.cache
         IN  [c EXCEPT !.cache =
                CacheSet(kept, [key |-> key, result |-> res, etag |-> etag,
                                expiresAt |-> t + c.cacheTtl])]

\* parseInt(maxAgeMatch[1], 10) * 1000, line 221
MsPerSecond == 1000

\* cacheControl.match(/max-age=(\d+)/): the digits of the first match
MaxAgeMatch(cc) ==
    LET starts == { i \in 1..Len(cc) :
                      /\ i + 8 <= Len(cc)
                      /\ SubSeq(cc, i, i + 7) = "max-age="
                      /\ IsDigit(CharAt(cc, i + 8)) }
        i == CHOOSE j \in starts : \A k \in starts : j <= k
        ends == { e \in (i + 8)..Len(cc) :
                    /\ \A k \in (i + 8)..e : IsDigit(CharAt(cc, k))
                    /\ (e = Len(cc) \/ ~IsDigit(CharAt(cc, e + 1))) }
    IN  IF starts = {} THEN Undefined
        ELSE Some(SubSeq(cc, i + 8, CHOOSE e \in ends : TRUE))

\* A response of the server to one fetch: the fetch rejects (network error,
\* abort on timeout), or it resolves with a status, the final URL
\* (response.url: <<>> stands for the URL requested), a body and the ETag
\* and Cache-Control headers.
Rejects == [threw |-> TRUE]

Response(status, url, body, etag, cacheControl) ==
    [threw |-> FALSE, status |-> status, url |-> url, body |-> body,
     etag |-> etag, cacheControl |-> cacheControl]

\* format === "json" ? parseJSON(body) : parse(body), line 211.  The parses
\* of the bodies the servers below send are computed once.
Bodies == { ValidJson, ValidText, "oops", "" }

ParsedBodies == [body \in Bodies |-> [json |-> parseJSON(body), text |-> parseInput(body)]]

ParseBody(format, body) ==
    IF body \in Bodies THEN ParsedBodies[body][format]
    ELSE IF format = "json" THEN parseJSON(body) ELSE parseInput(body)

\* lines 184-188: the If-None-Match header sent, given cache.get(url)
IfNoneMatch_never(cached) == Undefined

IfNoneMatch(cached) ==
    IF cached # Undefined /\ Truthy(Get(cached).etag) THEN Get(cached).etag ELSE Undefined

\* fetchAndParse, lines 175-239: the client after it, what it returned
\* (<<>> for null) and the request it sent.  Date.now() is t throughout.
\* res is the parse of the response's body (line 211), which is read only
\* where the code has reached that line.
Fetched(c, t, url, resp, res) ==
    LET cached == CacheGet(c.cache, url)
        ifNoneMatch == IfNoneMatch(cached)
        out(cl, v) == [client |-> cl, value |-> v,
                       request |-> [url |-> url, ifNoneMatch |-> ifNoneMatch]]
        responseUrl == IF resp.url = Undefined THEN url ELSE Get(resp.url)
        finalUrl == IF responseUrl # "" THEN responseUrl ELSE url
        maxAge == IF Truthy(resp.cacheControl) /\ res.success
                  THEN MaxAgeMatch(Get(resp.cacheControl)) ELSE Undefined
        set == setCache(c, t, url, res, resp.etag)
    IN  IF resp.threw THEN out(c, Undefined)
        ELSE IF ~AcceptedUrl(finalUrl) THEN out(c, Undefined)
        ELSE IF resp.status = 304 /\ cached # Undefined
        THEN out([c EXCEPT !.cache =
                     CacheSet(@, [Get(cached) EXCEPT !.expiresAt = t + c.cacheTtl])],
                 Some(Get(cached).result))
        ELSE IF resp.status \notin 200..299 THEN out(c, Undefined)
        ELSE IF maxAge # Undefined
        THEN out(IF CacheHas(set.cache, url)
                 THEN [set EXCEPT !.cache =
                         CacheSet(@, [Get(CacheGet(set.cache, url)) EXCEPT
                                        !.expiresAt = t + ParseInt(Get(maxAge)) * MsPerSecond])]
                 ELSE set,
                 Some(res))
        ELSE IF res.success THEN out(set, Some(res))
        ELSE out(c, Some(res))

fetchAndParse(c, t, url, format, resp) ==
    Fetched(c, t, url, resp, ParseBody(format, resp.body))

\* discover, lines 55-80: the client after it, the result and the requests
\* sent, in order.  json and txt are the server's responses to the two
\* fetches, should they be made.
discover_textFirst(c, t, baseUrl, json, txt) ==
    LET normalized == StripTrailingSlashes(baseUrl)
        f == fetchAndParse(c, t, normalized \o WELL_KNOWN_TXT, "text", txt)
    IN  IF ~AcceptedUrl(baseUrl)
        THEN [client |-> c, value |-> HttpsOnly, requests |-> <<>>]
        ELSE IF f.value # Undefined /\ Get(f.value).success
        THEN [client |-> f.client, value |-> Get(f.value), requests |-> <<f.request>>]
        ELSE [client |-> f.client, value |-> NotFound("ai.txt", normalized),
              requests |-> <<f.request>>]

\* lines 71-79: x is what the fetch of ai.txt returned, after j
TxtFetched(normalized, j, x) ==
    IF x.value # Undefined /\ Get(x.value).success
    THEN [client |-> x.client, value |-> Get(x.value),
          requests |-> <<j.request, x.request>>]
    ELSE [client |-> x.client, value |-> NotFound("ai.txt", normalized),
          requests |-> <<j.request, x.request>>]

\* lines 68-71: j is what the fetch of ai.json returned
JsonFetched(t, normalized, txt, j) ==
    IF j.value # Undefined /\ Get(j.value).success
    THEN [client |-> j.client, value |-> Get(j.value), requests |-> <<j.request>>]
    ELSE TxtFetched(normalized, j,
             fetchAndParse(j.client, t, normalized \o WELL_KNOWN_TXT, "text", txt))

discover(c, t, baseUrl, json, txt) ==
    LET normalized == StripTrailingSlashes(baseUrl)
        cachedJson == getCached(c, t, normalized \o WELL_KNOWN_JSON)
        cachedTxt == getCached(c, t, normalized \o WELL_KNOWN_TXT)
    IN  IF ~AcceptedUrl(baseUrl)
        THEN [client |-> c, value |-> HttpsOnly, requests |-> <<>>]
        ELSE IF cachedJson # Undefined
        THEN [client |-> c, value |-> Get(cachedJson), requests |-> <<>>]
        ELSE IF cachedTxt # Undefined
        THEN [client |-> c, value |-> Get(cachedTxt), requests |-> <<>>]
        ELSE JsonFetched(t, normalized, txt,
                 fetchAndParse(c, t, normalized \o WELL_KNOWN_JSON, "json", json))

\* discoverJSON, lines 85-99
\* lines 91-98: j is what the fetch of ai.json returned
JsonOnlyFetched(normalized, j) ==
    IF j.value # Undefined
    THEN [client |-> j.client, value |-> Get(j.value), requests |-> <<j.request>>]
    ELSE [client |-> j.client, value |-> NotFound("ai.json", normalized),
          requests |-> <<j.request>>]

discoverJSON(c, t, baseUrl, json) ==
    LET normalized == StripTrailingSlashes(baseUrl)
    IN  IF ~AcceptedUrl(baseUrl)
        THEN [client |-> c, value |-> HttpsOnly, requests |-> <<>>]
        ELSE JsonOnlyFetched(normalized,
                 fetchAndParse(c, t, normalized \o WELL_KNOWN_JSON, "json", json))


-----------------------------------------------------------------------------
(* one call on a new client: SpecClient *)

DEFAULT_CACHE_TTL == 300000
DEFAULT_MAX_CACHE_SIZE == 1000

BaseUrls ==
    { "https://test.com", "https://test.com///", "http://insecure.com",
      "http://localhost:3000", "http://localhost.attacker.com",
      "http://127.0.0.1:3000", "ftp://test.com" }

\* where a fetch may end up after redirects: where it started, nowhere
\* known, or at another URL
FinalUrls ==
    { Undefined, Some(""), Some("http://evil.com/malicious"),
      Some("https://cdn.test.com/ai.json"), Some("http://localhost:3000/ai.json") }

Responses ==
    {Rejects} \cup
    { Response(status, url, body, Undefined, Undefined) :
        status \in {200, 304, 404, 500}, url \in FinalUrls,
        body \in {ValidJson, ValidText, "oops"} }

InitClient ==
    /\ ParserIdle
    /\ heap = <<>>
    /\ doc = Undefined
    /\ call = Undefined
    /\ ret = Undefined
    /\ client = NewClient(DEFAULT_CACHE_TTL, DEFAULT_MAX_CACHE_SIZE)
    /\ now = 0
    /\ stored = EmptyObj

\* what a call to discover or discoverJSON leaves behind
Discovered(op, baseUrl, json, txt, d) ==
    /\ call' = [op |-> op, baseUrl |-> baseUrl, json |-> json, txt |-> txt,
                before |-> client, at |-> now, stored |-> stored]
    /\ ret' = [value |-> d.value, requests |-> d.requests]
    /\ client' = d.client

\* await client.discover(baseUrl), on a client that was not used before
DiscoverOnce ==
    /\ call = Undefined
    /\ \E baseUrl \in BaseUrls, json \in Responses, txt \in Responses :
          Discovered("discover", baseUrl, json, txt,
                     discover(client, now, baseUrl, json, txt))
    /\ UNCHANGED <<lines, ps, result, doc, heap, now, stored>>

\* await client.discoverJSON(baseUrl), on a client that was not used before
DiscoverJSONOnce ==
    /\ call = Undefined
    /\ \E baseUrl \in BaseUrls, json \in Responses :
          Discovered("discoverJSON", baseUrl, json, Undefined,
                     discoverJSON(client, now, baseUrl, json))
    /\ UNCHANGED <<lines, ps, result, doc, heap, now, stored>>

NextClient == DiscoverOnce \/ DiscoverJSONOnce

SpecClient == InitClient /\ [][NextClient]_vars

\* the host of a URL: what stands between "://" and the next ":" or "/"
HostOf(url) ==
    LET from == CHOOSE i \in 1..Len(url) : SubSeq(url, i, i + 2) = "://"
        rest == SubSeq(url, from + 3, Len(url))
        stops == { k \in 1..Len(rest) : CharAt(rest, k) \in {":", "/"} }
    IN  IF stops = {} THEN rest
        ELSE SubSeq(rest, 1, (CHOOSE k \in stops : \A j \in stops : k <= j) - 1)

\* https, or plain http to this machine
SecureOrLocal(url) ==
    \/ StartsWith(url, "https://")
    \/ StartsWith(url, "http://") /\ HostOf(url) \in {"localhost", "127.0.0.1"}

Discovering == Called("discover") \/ Called("discoverJSON")

\* the response the returned result was parsed from
ResponseUsed == IF Len(ret.requests) = 2 THEN call.txt ELSE call.json

\* the final URL that response reports
ReportedUrl ==
    IF ResponseUsed.url = Undefined THEN ret.requests[Len(ret.requests)].url
    ELSE Get(ResponseUsed.url)

RejectsInsecureBase ==
    Discovering /\ ~SecureOrLocal(call.baseUrl) =>
        /\ ret.requests = <<>>
        /\ ret.value = HttpsOnly

RejectsInsecureFinal ==
    Discovering /\ ret.value.success => SecureOrLocal(ReportedUrl)

\* C24: discover and discoverJSON perform no fetch and return success=false
\* with an HTTPS error for every base URL that is not https and whose host is
\* not exactly localhost or 127.0.0.1; and they never return success from a
\* response whose final URL after redirects is not such a URL, including
\* when the response reports an empty URL.
C24_OnlySecureOrLocal ==
    /\ RejectsInsecureBase
    /\ RejectsInsecureFinal


\* the two endpoints of the site discover was called for
JsonEndpoint == StripTrailingSlashes(call.baseUrl) \o WELL_KNOWN_JSON
TxtEndpoint == StripTrailingSlashes(call.baseUrl) \o WELL_KNOWN_TXT

\* the failures of a fetch attempt: network error or timeout, a status
\* outside 2xx, a body that does not parse successfully
FailsAsListed(resp, format) ==
    \/ resp.threw
    \/ resp.status \notin 200..299
    \/ ~ParseBody(format, resp.body).success

\* one more: the response came from a URL the client does not accept
FinalUrlRefused(resp, requested) ==
    /\ ~resp.threw
    /\ ~AcceptedUrl(IF resp.url \in {Undefined, Some("")} THEN requested ELSE Get(resp.url))

\* a call of discover on a base URL it accepts, with an empty cache
FreshDiscover ==
    /\ Called("discover")
    /\ AcceptedUrl(call.baseUrl)
    /\ call.before.cache = <<>>

\* C25 as stated: the ai.txt endpoint is fetched only after the JSON attempt
\* failed by a network error, a timeout, a non-2xx status or a body that
\* does not parse successfully, and when the JSON parses successfully
\* exactly one fetch is made.
C25_JsonFirstAsListed ==
    FreshDiscover =>
        /\ Len(ret.requests) \in 1..2
        /\ ret.requests[1].url = JsonEndpoint
        /\ Len(ret.requests) = 2 =>
              ret.requests[2].url = TxtEndpoint /\ FailsAsListed(call.json, "json")
        /\ ~FailsAsListed(call.json, "json") => Len(ret.requests) = 1
        /\ FailsAsListed(call.json, "json") /\ FailsAsListed(call.txt, "text") =>
              ret.value = NotFound("ai.txt", StripTrailingSlashes(call.baseUrl))

JsonFailed == FailsAsListed(call.json, "json") \/ FinalUrlRefused(call.json, JsonEndpoint)
TxtFailed == FailsAsListed(call.txt, "text") \/ FinalUrlRefused(call.txt, TxtEndpoint)

\* C25, amended: in every run of discover on an accepted base URL with
\* nothing cached the ai.json endpoint is fetched first, and the ai.txt
\* endpoint is fetched exactly when the JSON attempt failed, where a
\* response whose final URL the client does not accept is a failure too;
\* a successful JSON attempt makes exactly one fetch and its parse is the
\* result, a successful text attempt after a failed JSON one gives the
\* result, and two failures give success=false with "No ai.txt found".
C25_JsonFirst ==
    FreshDiscover =>
        /\ Len(ret.requests) \in 1..2
        /\ ret.requests[1].url = JsonEndpoint
        /\ \A k \in 1..Len(ret.requests) : ret.requests[k].ifNoneMatch = Undefined
        /\ ~JsonFailed => Len(ret.requests) = 1 /\ ret.value = ParseBody("json", call.json.body)
        /\ JsonFailed => Len(ret.requests) = 2 /\ ret.requests[2].url = TxtEndpoint
        /\ JsonFailed /\ ~TxtFailed => ret.value = ParseBody("text", call.txt.body)
        /\ JsonFailed /\ TxtFailed =>
              ret.value = NotFound("ai.txt", StripTrailingSlashes(call.baseUrl))

C25_Witness ==
    /\ FreshDiscover
    /\ call.json = Response(404, Undefined, "oops", Undefined, Undefined)
    /\ Len(ret.requests) = 2
    /\ ret.value.success


-----------------------------------------------------------------------------
(* calls on one client while time passes: SpecCache *)

\* how many times the clock advances, by one second each time
MaxTicks == 3

\* the cacheTtl and maxCacheSize options of the clients
CacheTtls == {0, 2000}
CacheSizes == {1, DEFAULT_MAX_CACHE_SIZE}

Site == "https://test.com"

\* what the server answers for ai.json and for ai.txt
Ok == Response(200, Undefined, ValidJson, Undefined, Undefined)
OkTagged == Response(200, Undefined, ValidJson, Some("\"abc123\""), Some("public, max-age=1"))
OkText == Response(200, Undefined, ValidText, Some("\"t1\""), Undefined)
NotModified == Response(304, Undefined, "", Undefined, Undefined)
Missing == Response(404, Undefined, "", Undefined, Undefined)

JsonResponses == {Ok, OkTagged, NotModified, Missing}
TxtResponses == {OkText, NotModified, Missing}

InitCache ==
    /\ ParserIdle
    /\ heap = <<>>
    /\ doc = Undefined
    /\ call = Undefined
    /\ ret = Undefined
    /\ client \in { NewClient(ttl, size) : ttl \in CacheTtls, size \in CacheSizes }
    /\ now = 0
    /\ stored = EmptyObj

\* the entry a discover that fetched left in the cache for its result
StoredEntry(d) ==
    LET key == d.requests[Len(d.requests)].url
        entry == CacheGet(d.client.cache, key)
    IN  IF d.requests # <<>> /\ d.value.success /\ entry # Undefined
           /\ Get(entry).result = d.value
        THEN entry ELSE Undefined

\* the responses a call did not ask for are left out of its record
Asked(d, k, resp) == IF Len(d.requests) >= k THEN resp ELSE Undefined

\* await client.discover(Site)
Discover ==
    /\ \E json \in JsonResponses, txt \in TxtResponses :
          \E d \in {discover(client, now, Site, json, txt)} :
              /\ Discovered("discover", Site, Asked(d, 1, json), Asked(d, 2, txt), d)
              /\ stored' = PutOpt(stored, Site, StoredEntry(d))
    /\ UNCHANGED <<lines, ps, result, doc, heap, now>>

\* await client.discoverJSON(Site + "/")
DiscoverJSON ==
    /\ \E json \in JsonResponses :
          \E d \in {discoverJSON(client, now, Site \o "/", json)} :
              Discovered("discoverJSON", Site \o "/", Asked(d, 1, json), Undefined, d)
    /\ UNCHANGED <<lines, ps, result, doc, heap, now, stored>>

\* client.clearCache(), lines 138-140
ClearCache ==
    /\ client' = [client EXCEPT !.cache = <<>>]
    /\ call' = [op |-> "clearCache", before |-> client, at |-> now]
    /\ ret' = Undefined
    /\ stored' = EmptyObj
    /\ UNCHANGED <<lines, ps, result, doc, heap, now>>

\* time passes between two calls
Tick ==
    /\ now < MaxTicks * MsPerSecond
    /\ now' = now + MsPerSecond
    /\ UNCHANGED <<lines, ps, result, doc, heap, client, call, ret, stored>>

NextCache == Discover \/ DiscoverJSON \/ ClearCache \/ Tick

SpecCache == InitCache /\ [][NextCache]_vars

CacheTypeOK == client.cacheTtl \in CacheTtls


\* the response the result of the call was made from
LastResponse == IF Len(ret.requests) = 2 THEN call.txt ELSE call.json

\* the time to live of a result made from a response: max-age seconds when
\* the server sent Cache-Control max-age, cacheTtl milliseconds otherwise
TimeToLive(resp) ==
    IF Truthy(resp.cacheControl) /\ MaxAgeMatch(Get(resp.cacheControl)) # Undefined
    THEN ParseInt(Get(MaxAgeMatch(Get(resp.cacheControl)))) * MsPerSecond
    ELSE call.before.cacheTtl

\* a discover that fetched a result and stored it expires it as said
ExpiresAsSaid ==
    Called("discover") /\ ret.requests # <<>> /\ ret.value.success
    /\ LastResponse.status = 200 /\ call.before.cacheTtl > 0 =>
        /\ Site \in DOMAIN stored
        /\ stored[Site].result = ret.value
        /\ stored[Site].expiresAt = call.at + TimeToLive(LastResponse)

\* with cacheTtl = 0 nothing is stored and every discover fetches
NoCacheWithoutTtl ==
    client.cacheTtl = 0 =>
        /\ client.cache = <<>>
        /\ Called("discover") => ret.requests # <<>>

\* clearCache empties the cache, and a discover with an empty cache fetches
ClearedFetchesAgain ==
    /\ Called("clearCache") => client.cache = <<>>
    /\ Called("discover") /\ call.before.cache = <<>> => ret.requests # <<>>

OnlySuccessesStored ==
    \A k \in 1..Len(client.cache) : client.cache[k].result.success

StillCached(c, entry) == CacheGet(c.cache, entry.key) = Some(entry)

\* the cache holds an ai.json entry of the site that has not expired
FreshJson(c, t) ==
    LET entry == CacheGet(c.cache, Site \o WELL_KNOWN_JSON)
    IN  entry # Undefined /\ t < Get(entry).expiresAt

EtagBefore(url) ==
    LET entry == CacheGet(call.before.cache, url)
    IN  IF entry = Undefined THEN Undefined ELSE Get(entry).etag

\* the entry the cache held for the endpoint fetched last
Revalidated == CacheGet(call.before.cache, ret.requests[Len(ret.requests)].url)

\* a discover that was answered 304 for an endpoint it had an entry for
Revalidation ==
    /\ Called("discover")
    /\ ret.requests # <<>>
    /\ LastResponse.status = 304
    /\ Revalidated # Undefined

\* C28: a cached entry that has expired is kept for revalidation: the next
\* discover for that site sends If-None-Match with the ETag stored for the
\* endpoint it fetches (and sends no If-None-Match when no ETag was stored);
\* on a 304 response it returns the previously cached result as a success
\* and moves the entry's expiry to cacheTtl after the revalidation, so that
\* following discovers are served from the cache again.
C28_Revalidates ==
    /\ Called("discover") /\ ret.requests = <<>> => client = call.before
    /\ Called("discover") /\ Len(call.before.cache) < call.before.maxCacheSize =>
          \A k \in 1..Len(call.before.cache) :
              CacheHas(client.cache, call.before.cache[k].key)
    /\ Called("discover") =>
          \A k \in 1..Len(ret.requests) :
              ret.requests[k].ifNoneMatch = EtagBefore(ret.requests[k].url)
    /\ Revalidation =>
          /\ ret.value = Get(Revalidated).result
          /\ ret.value.success
          /\ CacheGet(client.cache, Get(Revalidated).key) =
                Some([Get(Revalidated) EXCEPT !.expiresAt = call.at + client.cacheTtl])
          /\ getCached(client, call.at, Get(Revalidated).key) = Some(ret.value)
          /\ Len(client.cache) = Len(call.before.cache)

\* the ai.json entry had expired, its ETag was sent and the server answered
\* 304
C28_Witness ==
    /\ Revalidation
    /\ Len(ret.requests) = 1
    /\ Get(Revalidated).expiresAt <= call.at
    /\ ret.requests[1].ifNoneMatch = Some("\"abc123\"")
    /\ ret.value.success


-----------------------------------------------------------------------------
(* a small cache and several sites: SpecEvict *)

\* the largest maxCacheSize of the clients
MaxCacheSize == 2

EvictSites == {"https://a.com", "https://b.com", "https://c.com"}

InitEvict ==
    /\ ParserIdle
    /\ heap = <<>>
    /\ doc = Undefined
    /\ call = Undefined
    /\ ret = Undefined
    /\ client \in { NewClient(DEFAULT_CACHE_TTL, size) : size \in 1..MaxCacheSize }
    /\ now = 0
    /\ stored = EmptyObj

\* await client.discover(site)
DiscoverSite ==
    /\ \E site \in EvictSites, json \in {Ok, Missing}, txt \in {OkText, Missing} :
          \E d \in {discover(client, now, site, json, txt)} :
              Discovered("discover", site, Asked(d, 1, json), Asked(d, 2, txt), d)
    /\ UNCHANGED <<lines, ps, result, doc, heap, now, stored>>

\* await client.discoverJSON(site)
DiscoverJSONSite ==
    /\ \E site \in EvictSites, json \in {Ok, OkTagged, Missing} :
          \E d \in {discoverJSON(client, now, site, json)} :
              Discovered("discoverJSON", site, Asked(d, 1, json), Undefined, d)
    /\ UNCHANGED <<lines, ps, result, doc, heap, now, stored>>

NextEvict == DiscoverSite \/ DiscoverJSONSite \/ ClearCache

SpecEvict == InitEvict /\ [][NextEvict]_vars

\* the keys of a cache, the one inserted earliest first
KeysOf(cache) == [k \in 1..Len(cache) |-> cache[k].key]

\* the call stored its result, under this key
Storing ==
    /\ Discovering
    /\ ret.requests # <<>>
    /\ ret.value.success
    /\ LastResponse.status = 200

StoredKey == ret.requests[Len(ret.requests)].url

\* C27: for a client created with maxCacheSize = N (N at least 1), after any
\* sequence of discover, discoverJSON and clearCache calls the cache holds at
\* most N entries; when a result for a new key is stored into a full cache,
\* exactly one entry is evicted and it is the one that was inserted
\* earliest, and storing a result for a key already present evicts nothing.
C27_OldestEvicted ==
    /\ Len(client.cache) <= client.maxCacheSize
    /\ \A j, k \in 1..Len(client.cache) : client.cache[j].key = client.cache[k].key => j = k
    /\ Storing =>
          /\ CacheGet(client.cache, StoredKey) # Undefined
          /\ Get(CacheGet(client.cache, StoredKey)).result = ret.value
          /\ IF CacheHas(call.before.cache, StoredKey)
             THEN KeysOf(client.cache) = KeysOf(call.before.cache)
             ELSE IF Len(call.before.cache) >= call.before.maxCacheSize
             THEN KeysOf(client.cache) = Append(Tail(KeysOf(call.before.cache)), StoredKey)
             ELSE KeysOf(client.cache) = Append(KeysOf(call.before.cache), StoredKey)
          /\ \A k \in 1..Len(client.cache) :
                client.cache[k].key # StoredKey =>
                    Some(client.cache[k]) = CacheGet(call.before.cache, client.cache[k].key)
    /\ Discovering /\ ~Storing => client = call.before

\* a new key is stored into a full cache of two entries: the one inserted
\* first, an ai.json result with its ETag, is gone and the other has moved up
C27_Witness ==
    /\ Storing
    /\ client.maxCacheSize = 2
    /\ Len(call.before.cache) = 2
    /\ ~CacheHas(call.before.cache, StoredKey)
    /\ call.before.cache[1].etag # Undefined
    /\ KeysOf(client.cache) = <<call.before.cache[2].key, StoredKey>>


-----------------------------------------------------------------------------
(* blank lines and comments inside Agent blocks: SpecComments *)

\* how many lines an input takes after the two site lines
MaxCommentLines == 4

CommentLinePool ==
    { "Agent: ClaudeBot",
      "  Training: allow",
      "  Scraping: deny",
      "",
      "   ",
      "  # an indented comment",
      "# Spec-Version: 2.0",
      "Training: deny" }

ParseCommentLine ==
    /\ result = Undefined
    /\ \E raw \in IF Len(lines) < Len(SiteLines)
                  THEN {SiteLines[Len(lines) + 1]}
                  ELSE IF Len(lines) < Len(SiteLines) + MaxCommentLines
                  THEN CommentLinePool
                  ELSE {} :
          /\ lines' = Append(lines, raw)
          /\ ps' = ParseLoopBody(ps, Len(lines) + 1, raw)
    /\ UNCHANGED <<client, now, stored, heap, result, doc, call, ret>>

NextComments == ParseCommentLine \/ ParseReturn

SpecComments == Init /\ [][NextComments]_vars

ReadsSkipped == lines' # lines /\ IsSkipped(LineRead)

\* a blank line or a comment leaves the open block open and as it is, and
\* stores nothing
SkippedKeepsBlock ==
    ReadsSkipped => SameExcept({"specVersion", "generatedAt", "warnings"})

\* the field an indented line names and the value it gives
IndentedKey(raw) == ToLowerCase(Trim(Slice(Trim(raw), 0, IndexOf(Trim(raw), ":"))))
IndentedValue(raw) == Trim(SliceFrom(Trim(raw), IndexOf(Trim(raw), ":") + 1))

\* an indented policy line sets its field in the block the input has open,
\* whatever blank lines and comments stand before it
FieldSetInOpenBlock ==
    (ReadsIndented /\ OpenBlock # Undefined) =>
        /\ ps'.currentAgentName = OpenBlock
        /\ ps'.agents = ps.agents
        /\ ps'.state = "IN_AGENT"
        /\ (IndentedKey(LineRead) \in Fields /\ IndentedValue(LineRead) \in VALID_POLICY_VALUES) =>
              ps'.currentAgentPolicy =
                  Some(Put(Get(ps.currentAgentPolicy), IndentedKey(LineRead),
                           IndentedValue(LineRead)))

\* a block enters agents only when a non-indented line or the end of the
\* input is reached, and then it is the open block that enters, as collected
StoredWhenClosed ==
    LET open == OpenBlock
    IN  /\ ps'.agents # ps.agents => open # Undefined /\ (ReadsTop \/ result' # result)
        /\ (open # Undefined /\ (ReadsTop \/ result' # result)) =>
              ps'.agents = Put(ps.agents, Get(open), Get(ps.currentAgentPolicy))

\* C29: a blank line or a comment line inside an Agent block does not close
\* the block: indented field lines that follow it still set fields of the
\* same agent, and the block is stored once, when the next non-indented line
\* that is not blank or a comment, or the end of the input, is reached.
C29_CommentsKeepBlock ==
    /\ []OpenBlockTracked
    /\ [][SkippedKeepsBlock /\ FieldSetInOpenBlock /\ StoredWhenClosed]_vars

\* a comment stands between the two fields of a block, the input ends, and
\* the block holds both fields
C29_Witness ==
    /\ Parsed
    /\ Len(lines) = Len(SiteLines) + 4
    /\ lines[Len(SiteLines) + 1] = "Agent: ClaudeBot"
    /\ lines[Len(SiteLines) + 2] = "  Training: allow"
    /\ lines[Len(SiteLines) + 3] = "  # an indented comment"
    /\ lines[Len(SiteLines) + 4] = "  Scraping: deny"
    /\ Get(result).document.agents = [claudebot |-> [training |-> "allow", scraping |-> "deny"]]


-----------------------------------------------------------------------------
(* sanitizeValue applied to its own result: SpecTwice *)

\* how many code units a value has at most
MaxTwiceUnits == 4

\* tab, LF, space, "a", U+00A0
TwiceUnitPool == {9, 10, 32, 97, 160}

\* the values: short ones, and one of 499 "a", a space and an "a"
TwiceValues ==
    SeqsUpTo(TwiceUnitPool, MaxTwiceUnits)
        \cup { Repeated(DefaultMaxLength - 1) \o <<32, 97>> }

\* sanitizeValue(value, maxLength)
SanitizeOnce ==
    /\ call = Undefined
    /\ \E value \in TwiceValues, maxLength \in MaxLengths :
          /\ call' = [op |-> "sanitizeValue", value |-> value, maxLength |-> maxLength]
          /\ ret' = sanitizeUnits(value, maxLength)
    /\ UNCHANGED <<lines, ps, result, doc, heap, client, now, stored>>

\* sanitizeValue(first, maxLength), first being what the call before returned
SanitizeAgain ==
    /\ Called("sanitizeValue")
    /\ call' = [op |-> "sanitizeAgain", value |-> call.value,
                maxLength |-> call.maxLength, first |-> ret]
    /\ ret' = sanitizeUnits(ret, call.maxLength)
    /\ UNCHANGED <<lines, ps, result, doc, heap, client, now, stored>>

NextTwice == SanitizeOnce \/ SanitizeAgain

SpecTwice == Init /\ [][NextTwice]_vars

\* C30: sanitizeValue is idempotent: for every value v and every maxLength
\* m, sanitizeValue(sanitizeValue(v, m), m) equals sanitizeValue(v, m); in
\* particular its result never starts or ends with whitespace, so a value
\* written by generate is read back unchanged by the parser's trimming.
C30_Idempotent ==
    /\ Called("sanitizeAgain") => ret = call.first
    /\ Called("sanitizeValue") => TrimUnits(ret) = ret

\* the same, for the values that the cut at maxLength leaves whole
IdempotentUncut ==
    /\ Called("sanitizeAgain") /\ call.maxLength >= 0
       /\ Len(TrimUnits(StripControls(SpaceForNewlines(call.value)))) <= call.maxLength =>
            ret = call.first /\ TrimUnits(ret) = ret

=============================================================================
